---- MODULE Spec2Model ----
(***************************************************************************)
(* Agent Council: the three-stage council pipeline of                      *)
(* src/lib/agentCouncil.ts (collect -> rank -> synthesize), the ranking    *)
(* text parser and the rank aggregator, together with the configuration    *)
(* store (localStorage item COUNCIL_CONFIG_KEY) and, of                    *)
(* src/components/AgentCouncilMode.tsx, the configuration editor and the   *)
(* council dialog with its submissions and sessions; and the password      *)
(* gate of src/components/PasswordProtection.tsx.                          *)
(*                                                                         *)
(* Texts are sequences of tokens.  The tokens the code looks at are the    *)
(* marker "FINAL RANKING:", a number followed by a dot ("1."), and the     *)
(* labels "Response A" .. "Response Z"; every other token is prose.        *)
(* average_rank is kept in hundredths (1.33 is 133).                       *)
(***************************************************************************)
EXTENDS Integers, Sequences, FiniteSets, TLC

VARIABLES
    pc,                 \* position of run_full_council
    config,             \* councilConfig of the run
    raw1,               \* provider outcome of each Stage 1 call, by roster index
    raw2,               \* provider outcome of each Stage 2 call, by roster index
    raw3,               \* provider outcome of the chairman call
    completed,          \* roster indexes of the current fan-out in the order their calls settled
    stage1_results,     \* local of run_full_council
    stage2_results,     \* local of run_full_council
    label_to_member,    \* local of run_full_council
    aggregate_rankings, \* local of run_full_council
    result,             \* the CouncilResult returned by run_full_council
    agg_stage2,         \* calculate_aggregate_rankings, called on its own: argument
    agg_labels,         \* calculate_aggregate_rankings, called on its own: argument
    agg_out,            \* calculate_aggregate_rankings, called on its own: return value
    agg_pc,             \* calculate_aggregate_rankings, called on its own: "ready" or "returned"
    parse_text,         \* parse_ranking_from_text, called on its own: argument
    parse_out,          \* parse_ranking_from_text, called on its own: return value
    parse_pc,           \* parse_ranking_from_text, called on its own: "ready" or "returned"
    called,             \* the members and the chairman each stage of the run has called
    storage,            \* localStorage: the item under COUNCIL_CONFIG_KEY
    storage_denied,     \* localStorage refuses every access
    default_members,    \* the module-level object DEFAULT_COUNCIL_MEMBERS
    default_chairman,   \* the module-level object DEFAULT_CHAIRMAN
    councilMembers,     \* React state of AgentCouncilMode: references to member objects
    chairman,           \* React state of AgentCouncilMode: reference to a member object
    edits,              \* number of edits, saves and resets made in the editor
    last_call,          \* the latest handler or store call and how it went
    got,                \* what the latest getCouncilConfig and its loadCouncilConfig returned
    last_saved,         \* the configuration of the latest save that succeeded, <<>> if none
    input,              \* React state of AgentCouncilMode: the text of the textarea
    isLoading,          \* React state of AgentCouncilMode
    currentStage,       \* React state of AgentCouncilMode: the stage shown
    sessions,           \* React state of AgentCouncilMode: the session list
    currentSessionId,   \* React state of AgentCouncilMode: 0 for null
    stored_sessions,    \* localStorage: the item under SESSIONS_STORAGE_KEY
    configured,         \* the providers whose isConfigured() answers true
    closure,            \* what the handleSubmit in flight has captured from its render
    in_flight,          \* number of handleSubmit calls that have not reached their finally
    deleted,            \* the ids of the sessions deleted so far
    now,                \* Date.now(), counted in council turns recorded
    clock,              \* Date.now() of PasswordProtection, in units of five minutes
    auth_local,         \* localStorage: the items under ATTEMPT_KEY and LOCKOUT_KEY
    auth_session,       \* sessionStorage of each tab: the items under SESSION_KEY, TIMESTAMP_KEY, TOKEN_KEY
    gate,               \* React state of PasswordProtection, by tab
    submit,             \* the handleSubmit of PasswordProtection in flight and its password, by tab
    timer_set,          \* the time at which the countdown interval was set, by tab
    storage_event,      \* a storage event is queued for the tab
    misses              \* wrong submissions since the last login or lockout expiry

runVars == <<pc, config, raw1, raw2, raw3, completed, stage1_results,
             stage2_results, label_to_member, aggregate_rankings, result, called>>
aggVars == <<agg_stage2, agg_labels, agg_out, agg_pc>>
parseVars == <<parse_text, parse_out, parse_pc>>
storeVars == <<storage, storage_denied, default_members, default_chairman>>
editorVars == <<councilMembers, chairman, edits>>
callVars == <<last_call, got, last_saved>>
configVars == <<storeVars, editorVars, callVars>>
uiVars == <<input, isLoading, currentStage, sessions, currentSessionId, stored_sessions,
            configured, closure, in_flight, deleted, now>>
gateVars == <<clock, auth_local, auth_session, gate, submit, timer_set, storage_event,
              misses>>
vars == <<runVars, aggVars, parseVars, configVars, uiVars, gateVars>>

\* what a step of the run, of the aggregator, of the parser, of the editor, of
\* the council dialog, of the password gate leaves alone
offRunVars == <<aggVars, parseVars, configVars, uiVars, gateVars>>
offAggVars == <<runVars, parseVars, configVars, uiVars, gateVars>>
offParseVars == <<runVars, aggVars, configVars, uiVars, gateVars>>
offConfigVars == <<runVars, aggVars, parseVars, uiVars, gateVars>>
offUiVars == <<aggVars, parseVars, storeVars, edits, callVars, gateVars>>
offGateVars == <<runVars, aggVars, parseVars, configVars, uiVars>>

----------------------------------------------------------------------------
(* Bounds *)

MaxMembers == 2         \* longest roster a run is started with
MaxRankings == 3        \* most peer rankings handed to the aggregator on its own
MaxParsedLen == 2       \* longest parsed_ranking handed to the aggregator on its own
MaxTextLen == 6         \* longest text, in tokens, handed to the parser on its own
MaxEdits == 3           \* most edits, saves and resets made in the editor while no run is in flight
MaxEditsInFlight == 1   \* most edits, saves and resets made in the editor while a run is in flight

MinMembers == 2

----------------------------------------------------------------------------
(* Values *)

SeqsUpTo(S, lo, hi) == UNION {[1..n -> S] : n \in lo..hi}

Range(s) == {s[i] : i \in DOMAIN s}

RECURSIVE SumSeq(_)
SumSeq(s) == IF s = <<>> THEN 0 ELSE Head(s) + SumSeq(Tail(s))

DEFAULT_COUNCIL_MEMBERS ==
    << [name |-> "Llama Scholar", provider |-> "groq", modelId |-> "llama-3.1-8b-instant"],
       [name |-> "Mixtral Sage", provider |-> "groq", modelId |-> "mixtral-8x7b-32768"],
       [name |-> "Gemma Analyst", provider |-> "groq", modelId |-> "gemma2-9b-it"],
       [name |-> "Qwen Expert", provider |-> "together", modelId |-> "Qwen/Qwen3-Next-80B-A3B-Instruct"],
       [name |-> "Nemotron Oracle", provider |-> "openrouter", modelId |-> "nvidia/nemotron-nano-12b-v2-vl:free"] >>

DEFAULT_CHAIRMAN ==
    [name |-> "Qwen Chairman", provider |-> "together", modelId |-> "Qwen/Qwen3-Next-80B-A3B-Instruct"]

\* the members a roster is made of; a roster may name the same member twice
MemberPool == {DEFAULT_COUNCIL_MEMBERS[1], DEFAULT_COUNCIL_MEMBERS[2]}

Rosters == SeqsUpTo(MemberPool, MinMembers, MaxMembers)

CouncilConfigs == [members : Rosters, chairman : {DEFAULT_CHAIRMAN}]

NoConfig == [members |-> <<>>, chairman |-> DEFAULT_CHAIRMAN]

Letters == <<"A", "B", "C", "D", "E", "F", "G", "H", "I", "J", "K", "L", "M",
             "N", "O", "P", "Q", "R", "S", "T", "U", "V", "W", "X", "Y", "Z">>

\* `Response ${String.fromCharCode(65 + i)}` for the 0-based index i
Label(i) == "Response " \o Letters[i + 1]

LabelTokens == {Label(i) : i \in 0..25}

Marker == "FINAL RANKING:"
NumberDot == "1."
Prose == "text"

\* what the provider's sendMessage does with a call
NotIssued == [kind |-> "notissued", text |-> <<>>]
InFlight == [kind |-> "inflight", text |-> <<>>]
Thrown == [kind |-> "throw", text |-> <<>>]
NoContent == [kind |-> "nocontent", text |-> <<>>]
Content(t) == [kind |-> "content", text |-> t]

Outcomes(texts) == {Thrown, NoContent} \cup {Content(t) : t \in texts \cup {<<>>}}

\* a rejected call taken for one that is still pending
Settled_fulfilled_only(o) == o.kind \in {"nocontent", "content"}

\* the promise of the call is no longer pending
Settled(o) == o.kind \in {"throw", "nocontent", "content"}

\* what queryProvider hands to its caller
Null == [kind |-> "null", text |-> <<>>]
Text(t) == [kind |-> "text", text |-> t]
Raised == [kind |-> "raised", text |-> <<>>]

Truthy(r) == r.kind = "text" /\ r.text # <<>>

\* the answer the Stage 1 call of roster index i carries: every call has its own
AnswerText(i) == <<"answer", Letters[i]>>

\* the reviews a Stage 2 call may carry
RankingTexts ==
    { <<Prose, Marker, NumberDot, Label(0), NumberDot, Label(1)>>,
      <<Marker, NumberDot, Label(0), NumberDot, Label(2), NumberDot, Label(0)>>,
      <<Prose>> }

SynthesisTexts == {<<"synthesis">>}

\* one outcome of each kind that queryProvider tells apart
PlainOutcomes == {Thrown, NoContent, Content(<<Prose>>)}

----------------------------------------------------------------------------
(* The configuration store: localStorage under COUNCIL_CONFIG_KEY             *)
(*                                                                         *)
(* A stored text is a sequence of tokens; <<>> is no item under the key.    *)
(* The module-level objects DEFAULT_COUNCIL_MEMBERS and DEFAULT_CHAIRMAN     *)
(* live in default_members and default_chairman, so that a write through a  *)
(* shared reference would show.                                             *)

\* getItem returns null: nothing is stored under the key
NoItem == <<>>

\* a stored text that is not JSON
NotJson == <<"{\"members\":[">>

RECURSIVE StringifyMembers(_)
StringifyMembers(members) ==
    IF members = <<>> THEN <<>>
    ELSE <<Head(members).name, Head(members).provider, Head(members).modelId>>
         \o StringifyMembers(Tail(members))

\* JSON.stringify(config): {"members":[{name,provider,modelId},...],"chairman":{...}}
JsonStringify(cfg) ==
    <<"{", "[">> \o StringifyMembers(cfg.members) \o <<"]">>
    \o <<cfg.chairman.name, cfg.chairman.provider, cfg.chairman.modelId>> \o <<"}">>

\* JSON.parse accepts the text
IsJson(text) ==
    /\ Len(text) >= 7
    /\ (Len(text) - 7) % 3 = 0
    /\ text[1] = "{"
    /\ text[2] = "["
    /\ text[Len(text) - 4] = "]"
    /\ text[Len(text)] = "}"

\* JSON.parse(text) of a text it accepts
JsonParse(text) ==
    [members |-> [i \in 1..((Len(text) - 7) \div 3) |->
                     [name |-> text[3 * i], provider |-> text[3 * i + 1],
                      modelId |-> text[3 * i + 2]]],
     chairman |-> [name |-> text[Len(text) - 3], provider |-> text[Len(text) - 2],
                   modelId |-> text[Len(text) - 1]]]

\* a reference held in React state: to an object of its own (ref = 0), or to the
\* ref-th module-level default object
NoMember == [name |-> "", provider |-> "", modelId |-> ""]
Own(member) == [ref |-> 0, own |-> member]
Shared(k) == [ref |-> k, own |-> NoMember]

\* the object a reference leads to; objects are the module-level default objects
Deref(cell, objects) == IF cell.ref = 0 THEN cell.own ELSE objects[cell.ref]

NoCall == [op |-> "none", failed |-> FALSE, raised |-> FALSE]

NothingGot ==
    [loaded |-> [raised |-> FALSE, value |-> <<>>],
     config |-> [raised |-> FALSE, value |-> NoConfig]]

\* what a call of the store comes to: it returns or it raises
Returned(v) == [raised |-> FALSE, value |-> v]
RaisedError == [raised |-> TRUE, value |-> <<>>]

\* loadCouncilConfig without its try/catch
loadCouncilConfig_no_catch(stored, denied) ==
    IF denied THEN RaisedError
    ELSE IF stored = NoItem THEN Returned(<<>>)
    ELSE IF IsJson(stored) THEN Returned(<<JsonParse(stored)>>)
    ELSE RaisedError

\* stored is the item under the key, denied says that the storage refuses access;
\* the value is <<>> for null and <<config>> for a configuration
loadCouncilConfig(stored, denied) ==
    IF denied THEN Returned(<<>>)
    ELSE IF stored = NoItem THEN Returned(<<>>)
    ELSE IF IsJson(stored) THEN Returned(<<JsonParse(stored)>>)
    ELSE Returned(<<>>)

\* defaults is the pair of module-level objects [members, chairman]
getCouncilConfig(stored, denied, defaults) ==
    LET saved == loadCouncilConfig(stored, denied)
    IN IF saved.raised THEN [raised |-> TRUE, value |-> NoConfig]
       ELSE IF saved.value # <<>> THEN Returned(saved.value[1])
       ELSE Returned([members |-> defaults.members, chairman |-> defaults.chairman])

\* the config that is stored, whatever is handed in, is the one the store holds
saveCouncilConfig_keeps_first(stored, cfg, fails) ==
    [raised |-> FALSE,
     value |-> IF fails \/ stored # NoItem THEN stored ELSE JsonStringify(cfg)]

\* fails says that setItem throws (access refused, quota exceeded); the value is
\* the item under the key afterwards
saveCouncilConfig(stored, cfg, fails) ==
    [raised |-> FALSE, value |-> IF fails THEN stored ELSE JsonStringify(cfg)]

----------------------------------------------------------------------------
(* queryProvider, queryProvidersParallel *)

\* queryProvider without its try/catch
queryProvider_no_catch(o) ==
    IF o.kind = "throw" THEN Raised
    ELSE IF o.kind = "content" /\ o.text # <<>> THEN Text(o.text) ELSE Null

queryProvider(o) ==
    IF o.kind = "content" /\ o.text # <<>> THEN Text(o.text) ELSE Null

\* Promise.race in place of Promise.all
AllSettled_race(raw) == \E i \in DOMAIN raw : Settled(raw[i])

\* Promise.all over the member calls: settles once every call has settled
AllSettled(raw) == \A i \in DOMAIN raw : Settled(raw[i])

\* results of the calls in roster order, as Promise.all delivers them
CallResults(members, raw) ==
    [i \in DOMAIN members |-> [member |-> members[i].name, response |-> queryProvider(raw[i])]]

\* resultMap.set(member, response) for each result in turn: the last set of a name wins
RECURSIVE MapSetAll(_, _)
MapSetAll(map, results) ==
    IF results = <<>> THEN map
    ELSE MapSetAll([n \in DOMAIN map \cup {Head(results).member} |->
                       IF n = Head(results).member THEN Head(results).response ELSE map[n]],
                   Tail(results))

EmptyMap == [n \in {} |-> Null]

queryProvidersParallel(members, raw) == MapSetAll(EmptyMap, CallResults(members, raw))

\* a queryProvider call that rejects makes Promise.all reject
FanOutRejects(members, raw) ==
    \E i \in DOMAIN members : queryProvider(raw[i]) = Raised

----------------------------------------------------------------------------
(* Stage 1 *)

\* the loop over councilMembers after the fan-out
RECURSIVE Stage1Loop(_, _)
Stage1Loop(members, responses) ==
    IF members = <<>> THEN <<>>
    ELSE LET member == Head(members)
             response == responses[member.name]
             rest == Stage1Loop(Tail(members), responses)
         IN IF Truthy(response)
            THEN <<[member |-> member.name, model |-> member.modelId,
                    provider |-> member.provider, response |-> response.text]>> \o rest
            ELSE rest

\* the entries pushed as the calls settle
stage1_collect_responses_as_settled(members, raw, order) ==
    LET settled == SelectSeq(order, LAMBDA i : Truthy(queryProvider(raw[i])))
    IN [p \in DOMAIN settled |->
           [member |-> members[settled[p]].name, model |-> members[settled[p]].modelId,
            provider |-> members[settled[p]].provider,
            response |-> queryProvider(raw[settled[p]]).text]]

\* raw and order are what the provider calls of the fan-out did: their outcomes
\* and the order in which they settled
stage1_collect_responses(members, raw, order) ==
    Stage1Loop(members, queryProvidersParallel(members, raw))

----------------------------------------------------------------------------
(* Stage 2 *)

RECURSIVE IndexOf(_, _, _)
IndexOf(s, x, from) ==
    IF from > Len(s) THEN 0
    ELSE IF s[from] = x THEN from ELSE IndexOf(s, x, from + 1)

\* ranking_text.split("FINAL RANKING:")[1]: what lies between the first marker
\* and the next one (or the end of the text)
SplitPart1(text) ==
    LET first == IndexOf(text, Marker, 1)
        second == IndexOf(text, Marker, first + 1)
        last == IF second = 0 THEN Len(text) ELSE second - 1
    IN SubSeq(text, first + 1, last)

\* the number alone taken for an entry (/\d+\./g): a match that holds no label is
\* reduced to ""
RECURSIVE NumberedMatches_number_only(_)
NumberedMatches_number_only(section) ==
    IF section = <<>> THEN <<>>
    ELSE IF Head(section) = NumberDot
         THEN IF Len(section) >= 2 /\ section[2] \in LabelTokens
              THEN <<section[2]>> \o NumberedMatches_number_only(SubSeq(section, 3, Len(section)))
              ELSE <<"">> \o NumberedMatches_number_only(Tail(section))
         ELSE NumberedMatches_number_only(Tail(section))

\* the label alone taken for an entry (/Response [A-Z]/g)
NumberedMatches_label_only(section) == SelectSeq(section, LAMBDA tok : tok \in LabelTokens)

\* section.match(/\d+\.\s*Response [A-Z]/g), each match reduced to its label
RECURSIVE NumberedMatches(_)
NumberedMatches(section) ==
    IF Len(section) < 2 THEN <<>>
    ELSE IF section[1] = NumberDot /\ section[2] \in LabelTokens
         THEN <<section[2]>> \o NumberedMatches(SubSeq(section, 3, Len(section)))
         ELSE NumberedMatches(Tail(section))

\* text.match(/Response [A-Z]/g)
BareMatches(text) == SelectSeq(text, LAMBDA tok : tok \in LabelTokens)

parse_ranking_from_text(ranking_text) ==
    IF \E i \in DOMAIN ranking_text : ranking_text[i] = Marker
    THEN LET ranking_section == SplitPart1(ranking_text)
             numbered_matches == NumberedMatches(ranking_section)
         IN IF numbered_matches # <<>> THEN numbered_matches
            ELSE BareMatches(ranking_section)
    ELSE BareMatches(ranking_text)

\* label_to_member[`Response ${labels[i]}`] = result.member
BuildLabelToMember(results) ==
    [l \in {Label(i - 1) : i \in DOMAIN results} |->
        results[CHOOSE i \in DOMAIN results : Label(i - 1) = l].member]

RECURSIVE Stage2Loop(_, _)
Stage2Loop(members, responses) ==
    IF members = <<>> THEN <<>>
    ELSE LET member == Head(members)
             response == responses[member.name]
             rest == Stage2Loop(Tail(members), responses)
         IN IF Truthy(response)
            THEN <<[member |-> member.name, model |-> member.modelId,
                    provider |-> member.provider, ranking |-> response.text,
                    parsed_ranking |-> parse_ranking_from_text(response.text)]>> \o rest
            ELSE rest

stage2_collect_rankings(results, members, raw) ==
    [stage2_results |-> Stage2Loop(members, queryProvidersParallel(members, raw)),
     label_to_member |-> BuildLabelToMember(results)]

----------------------------------------------------------------------------
(* Aggregate rankings *)

\* the pairs with the 0-based position of forEach: the + 1 left out
RECURSIVE Visits_zero_indexed(_)
Visits_zero_indexed(rankings) ==
    IF rankings = <<>> THEN <<>>
    ELSE [p \in 1..Len(Head(rankings).parsed_ranking) |->
             [label |-> Head(rankings).parsed_ranking[p], position |-> p - 1]]
         \o Visits_zero_indexed(Tail(rankings))

\* the (label, position) pairs in the order the two nested forEach loops visit them
RECURSIVE Visits(_)
Visits(rankings) ==
    IF rankings = <<>> THEN <<>>
    ELSE [p \in 1..Len(Head(rankings).parsed_ranking) |->
             [label |-> Head(rankings).parsed_ranking[p], position |-> p]]
         \o Visits(Tail(rankings))

\* const member = label_to_member[label]; if (member)
Resolves(labels, label) == label \in DOMAIN labels /\ labels[label] # ""

\* member_positions with an entry of its own for every visit that resolves
RECURSIVE TrackPositions_unmerged(_, _, _)
TrackPositions_unmerged(member_positions, visits, labels) ==
    IF visits = <<>> THEN member_positions
    ELSE LET v == Head(visits)
             next ==
                 IF ~Resolves(labels, v.label) THEN member_positions
                 ELSE Append(member_positions,
                             [member |-> labels[v.label], positions |-> <<v.position>>])
         IN TrackPositions_unmerged(next, Tail(visits), labels)

\* member_positions, as the sequence of its entries in insertion order
RECURSIVE TrackPositions(_, _, _)
TrackPositions(member_positions, visits, labels) ==
    IF visits = <<>> THEN member_positions
    ELSE LET v == Head(visits)
             next ==
                 IF ~Resolves(labels, v.label) THEN member_positions
                 ELSE LET member == labels[v.label]
                      IN IF \E i \in DOMAIN member_positions : member_positions[i].member = member
                         THEN [i \in DOMAIN member_positions |->
                                 IF member_positions[i].member = member
                                 THEN [member_positions[i] EXCEPT
                                          !.positions = Append(@, v.position)]
                                 ELSE member_positions[i]]
                         ELSE Append(member_positions,
                                     [member |-> member, positions |-> <<v.position>>])
         IN TrackPositions(next, Tail(visits), labels)

\* the property keys that are array indexes: the decimal numerals "0", "1", ...
IndexKeys == [n \in 0..9 |-> ToString(n)]

IsArrayIndex(key) == \E n \in DOMAIN IndexKeys : IndexKeys[n] = key

ArrayIndex(key) == CHOOSE n \in DOMAIN IndexKeys : IndexKeys[n] = key

RECURSIVE InsertByIndex(_, _)
InsertByIndex(sorted, e) ==
    IF sorted = <<>> THEN <<e>>
    ELSE IF ArrayIndex(e.member) < ArrayIndex(Head(sorted).member) THEN <<e>> \o sorted
         ELSE <<Head(sorted)>> \o InsertByIndex(Tail(sorted), e)

RECURSIVE SortByIndex(_)
SortByIndex(s) ==
    IF s = <<>> THEN <<>>
    ELSE InsertByIndex(SortByIndex(SubSeq(s, 1, Len(s) - 1)), s[Len(s)])

\* Object.entries(member_positions): the keys that are array indexes first, in
\* ascending numeric order, then the other keys in insertion order
ObjectEntries(member_positions) ==
    SortByIndex(SelectSeq(member_positions, LAMBDA e : IsArrayIndex(e.member)))
    \o SelectSeq(member_positions, LAMBDA e : ~IsArrayIndex(e.member))

\* Math.floor in place of Math.round
RoundedMean_floor(positions) == (100 * SumSeq(positions)) \div Len(positions)

\* Math.round((sum / n) * 100) / 100, in hundredths
RoundedMean(positions) ==
    (200 * SumSeq(positions) + Len(positions)) \div (2 * Len(positions))

\* the fallback 999 of the average, in hundredths
DefaultRank == 999 * 100

AggregateEntry(e) ==
    [member |-> e.member,
     average_rank |-> IF Len(e.positions) > 0 THEN RoundedMean(e.positions) ELSE DefaultRank,
     rankings_count |-> Len(e.positions)]

\* the comparator turned around: b.average_rank - a.average_rank
RECURSIVE InsertByRank_descending(_, _)
InsertByRank_descending(sorted, e) ==
    IF sorted = <<>> THEN <<e>>
    ELSE IF e.average_rank > Head(sorted).average_rank THEN <<e>> \o sorted
         ELSE <<Head(sorted)>> \o InsertByRank_descending(Tail(sorted), e)

\* aggregate.sort((a, b) => a.average_rank - b.average_rank): a stable sort
RECURSIVE InsertByRank(_, _)
InsertByRank(sorted, e) ==
    IF sorted = <<>> THEN <<e>>
    ELSE IF e.average_rank < Head(sorted).average_rank THEN <<e>> \o sorted
         ELSE <<Head(sorted)>> \o InsertByRank(Tail(sorted), e)

RECURSIVE SortByRank(_)
SortByRank(s) ==
    IF s = <<>> THEN <<>>
    ELSE InsertByRank(SortByRank(SubSeq(s, 1, Len(s) - 1)), s[Len(s)])

\* the property names every object inherits from Object.prototype
InheritedKeys == {"constructor", "toString"}

\* member_positions[member] of a member named like an inherited property is that
\* property, truthy and no array: member_positions[member].push(...) throws
AggregateRaises(rankings, labels) ==
    \E i \in DOMAIN Visits(rankings) :
        /\ Resolves(labels, Visits(rankings)[i].label)
        /\ labels[Visits(rankings)[i].label] \in InheritedKeys

\* member_positions started with an empty list for every member of the label map
calculate_aggregate_rankings_seeded(rankings, labels) ==
    LET names == {labels[l] : l \in DOMAIN labels}
        seed == CHOOSE q \in [1..Cardinality(names) -> names] : Range(q) = names
        member_positions ==
            ObjectEntries(
                TrackPositions([i \in DOMAIN seed |-> [member |-> seed[i], positions |-> <<>>]],
                               Visits(rankings), labels))
    IN SortByRank([i \in DOMAIN member_positions |-> AggregateEntry(member_positions[i])])

calculate_aggregate_rankings(rankings, labels) ==
    LET member_positions == ObjectEntries(TrackPositions(<<>>, Visits(rankings), labels))
    IN SortByRank([i \in DOMAIN member_positions |-> AggregateEntry(member_positions[i])])

----------------------------------------------------------------------------
(* Stage 3 *)

ChairmanFailureText ==
    <<"Error: Unable to generate final synthesis. The chairman model did not respond.">>

\* a chairman failure answered like the failure of every member
stage3_synthesize_final_as_all_failed(chairmanMember, o) ==
    LET response == queryProvider(o)
    IN IF ~Truthy(response)
       THEN [chairman |-> "Error", model |-> "none", provider |-> "none",
             response |-> ChairmanFailureText]
       ELSE [chairman |-> chairmanMember.name, model |-> chairmanMember.modelId,
             provider |-> chairmanMember.provider, response |-> response.text]

stage3_synthesize_final(chairmanMember, o) ==
    LET response == queryProvider(o)
    IN [chairman |-> chairmanMember.name, model |-> chairmanMember.modelId,
        provider |-> chairmanMember.provider,
        response |-> IF ~Truthy(response) THEN ChairmanFailureText ELSE response.text]

----------------------------------------------------------------------------
(* run_full_council *)

AllFailedResult ==
    [stage1_results |-> <<>>,
     stage2_results |-> <<>>,
     stage3_result |-> [chairman |-> "Error", model |-> "none", provider |-> "none",
                        response |-> <<"All models failed to respond. Please check your API keys and try again.">>],
     metadata |-> [label_to_member |-> EmptyMap, aggregate_rankings |-> <<>>]]

NoResult ==
    [stage1_results |-> <<>>,
     stage2_results |-> <<>>,
     stage3_result |-> [chairman |-> "", model |-> "", provider |-> "", response |-> <<>>],
     metadata |-> [label_to_member |-> EmptyMap, aggregate_rankings |-> <<>>]]

\* what getCouncilConfig() returns at this moment
Configured ==
    getCouncilConfig(storage, storage_denied,
                     [members |-> default_members, chairman |-> default_chairman]).value

\* the stage asks getCouncilConfig() for its members instead of using its argument
MembersOrConfigured_reread(members, effective) == effective.members

\* const councilMembers = members || getCouncilConfig().members: run_full_council
\* always hands the members in
MembersOrConfigured(members, effective) == members

\* const chairmanMember = chairman || getCouncilConfig().chairman
ChairmanOrConfigured(chairmanMember, effective) == chairmanMember

NobodyCalled == [stage1 |-> <<>>, stage2 |-> <<>>, stage3 |-> <<>>]

\* the early return left out
NobodyResponded_never(results) == FALSE

\* if (stage1_results.length === 0)
NobodyResponded(results) == Len(results) = 0

\* no run has been started
RunIdle ==
    /\ pc = "idle"
    /\ config = NoConfig
    /\ raw1 = <<>>
    /\ raw2 = <<>>
    /\ raw3 = NotIssued
    /\ completed = <<>>
    /\ stage1_results = <<>>
    /\ stage2_results = <<>>
    /\ label_to_member = EmptyMap
    /\ aggregate_rankings = <<>>
    /\ result = NoResult
    /\ called = NobodyCalled

AggIdle ==
    /\ agg_stage2 = <<>>
    /\ agg_labels = EmptyMap
    /\ agg_out = <<>>
    /\ agg_pc = "ready"

ParseIdle ==
    /\ parse_text = <<>>
    /\ parse_out = <<>>
    /\ parse_pc = "ready"

\* the page has loaded with nothing stored and the editor has not been used
ConfigIdle ==
    /\ storage = NoItem
    /\ storage_denied = FALSE
    /\ default_members = DEFAULT_COUNCIL_MEMBERS
    /\ default_chairman = DEFAULT_CHAIRMAN
    /\ councilMembers = [i \in DOMAIN DEFAULT_COUNCIL_MEMBERS |-> Shared(i)]
    /\ chairman = Shared(1)
    /\ edits = 0
    /\ last_call = NoCall
    /\ got = NothingGot
    /\ last_saved = <<>>

NoSession == 0

NoClosure == [sessions |-> <<>>, currentSessionId |-> NoSession, query |-> "", config |-> NoConfig]

\* the dialog has mounted with no sessions stored and has not been used
UiIdle ==
    /\ input = ""
    /\ isLoading = FALSE
    /\ currentStage = "idle"
    /\ sessions = <<>>
    /\ currentSessionId = NoSession
    /\ stored_sessions = NoItem
    /\ configured = {"groq"}
    /\ closure = NoClosure
    /\ in_flight = 0
    /\ deleted = {}
    /\ now = 0

\* an item of the storage: absent, the decimal text of a number, another text
NoEntry == [kind |-> "none", n |-> 0]
Num(n) == [kind |-> "number", n |-> n]
NotANumber == [kind |-> "text", n |-> 0]

\* the item under SESSION_KEY: absent, btoa of data xor salt, another text
NoCipher == [kind |-> "none", plain |-> "", salt |-> ""]
NotACipher == [kind |-> "text", plain |-> "", salt |-> ""]

NoAuthLocal == [attempts |-> NoEntry, lockout |-> NoEntry]
NoAuthSession == [session |-> NoCipher, timestamp |-> NoEntry, token |-> ""]

\* the state PasswordProtection is constructed with
GateMounted ==
    [isAuthenticated |-> FALSE, password |-> "", isLoading |-> FALSE, isLocked |-> FALSE,
     remainingTime |-> 0, attempts |-> 0]

NoSubmit == [pc |-> "idle", password |-> ""]

\* the tabs in which the page is open
Tabs == {1, 2}

GateIdle ==
    /\ clock = 0
    /\ auth_local = NoAuthLocal
    /\ auth_session = [tab \in Tabs |-> NoAuthSession]
    /\ gate = [tab \in Tabs |-> GateMounted]
    /\ submit = [tab \in Tabs |-> NoSubmit]
    /\ timer_set = [tab \in Tabs |-> 0]
    /\ storage_event = [tab \in Tabs |-> FALSE]
    /\ misses = 0

Init == RunIdle /\ AggIdle /\ ParseIdle /\ ConfigIdle /\ UiIdle /\ GateIdle

\* run_full_council is entered: Stage 1 issues one call per member
StartRun(cfg) ==
    /\ pc = "idle"
    /\ pc' = "stage1"
    /\ config' = cfg
    /\ called' = [called EXCEPT !.stage1 = MembersOrConfigured(cfg.members, Configured)]
    /\ raw1' = [i \in DOMAIN called'.stage1 |-> InFlight]
    /\ raw2' = [i \in DOMAIN cfg.members |-> NotIssued]
    /\ UNCHANGED <<raw3, completed, stage1_results, stage2_results, label_to_member,
                   aggregate_rankings, result, offRunVars>>

\* the provider settles the Stage 1 call of member i
SettleStage1(i, o) ==
    /\ pc = "stage1"
    /\ raw1[i] = InFlight
    /\ raw1' = [raw1 EXCEPT ![i] = o]
    /\ completed' = Append(completed, i)
    /\ UNCHANGED <<pc, config, raw2, raw3, stage1_results, stage2_results, label_to_member,
                   aggregate_rankings, result, called, offRunVars>>

\* Stage 1 joins; run_full_council returns early or Stage 2 issues its calls
JoinStage1 ==
    /\ pc = "stage1"
    /\ AllSettled(raw1)
    /\ completed' = <<>>
    /\ IF FanOutRejects(called.stage1, raw1)
       THEN /\ pc' = "threw"
            /\ UNCHANGED <<raw2, stage1_results, label_to_member, result, called>>
       ELSE LET results == stage1_collect_responses(called.stage1, raw1, completed)
            IN /\ stage1_results' = results
               /\ IF NobodyResponded(results)
                  THEN /\ pc' = "done"
                       /\ result' = AllFailedResult
                       /\ UNCHANGED <<raw2, label_to_member, called>>
                  ELSE /\ pc' = "stage2"
                       /\ label_to_member' = BuildLabelToMember(results)
                       /\ called' = [called EXCEPT
                                        !.stage2 = MembersOrConfigured(config.members, Configured)]
                       /\ raw2' = [i \in DOMAIN called'.stage2 |-> InFlight]
                       /\ UNCHANGED result
    /\ UNCHANGED <<config, raw1, raw3, stage2_results, aggregate_rankings, offRunVars>>

\* the provider settles the Stage 2 call of member i
SettleStage2(i, o) ==
    /\ pc = "stage2"
    /\ raw2[i] = InFlight
    /\ raw2' = [raw2 EXCEPT ![i] = o]
    /\ completed' = Append(completed, i)
    /\ UNCHANGED <<pc, config, raw1, raw3, stage1_results, stage2_results, label_to_member,
                   aggregate_rankings, result, called, offRunVars>>

\* Stage 2 joins, the rankings are aggregated and the chairman is called
JoinStage2 ==
    /\ pc = "stage2"
    /\ AllSettled(raw2)
    /\ completed' = <<>>
    /\ IF \/ FanOutRejects(called.stage2, raw2)
          \/ LET s2 == stage2_collect_rankings(stage1_results, called.stage2, raw2)
             IN AggregateRaises(s2.stage2_results, s2.label_to_member)
       THEN /\ pc' = "threw"
            /\ UNCHANGED <<raw3, stage2_results, aggregate_rankings, called>>
       ELSE LET s2 == stage2_collect_rankings(stage1_results, called.stage2, raw2)
            IN /\ pc' = "stage3"
               /\ stage2_results' = s2.stage2_results
               /\ aggregate_rankings' =
                      calculate_aggregate_rankings(s2.stage2_results, s2.label_to_member)
               /\ called' = [called EXCEPT
                                !.stage3 = <<ChairmanOrConfigured(config.chairman, Configured)>>]
               /\ raw3' = InFlight
    /\ UNCHANGED <<config, raw1, raw2, stage1_results, label_to_member, result, offRunVars>>

\* the provider settles the chairman call
SettleStage3(o) ==
    /\ pc = "stage3"
    /\ raw3 = InFlight
    /\ raw3' = o
    /\ UNCHANGED <<pc, config, raw1, raw2, completed, stage1_results, stage2_results,
                   label_to_member, aggregate_rankings, result, called, offRunVars>>

\* run_full_council returns
Return ==
    /\ pc = "stage3"
    /\ Settled(raw3)
    /\ IF queryProvider(raw3) = Raised
       THEN /\ pc' = "threw"
            /\ UNCHANGED result
       ELSE /\ pc' = "done"
            /\ result' = [stage1_results |-> stage1_results,
                          stage2_results |-> stage2_results,
                          stage3_result |-> stage3_synthesize_final(called.stage3[1], raw3),
                          metadata |-> [label_to_member |-> label_to_member,
                                        aggregate_rankings |-> aggregate_rankings]]
    /\ UNCHANGED <<config, raw1, raw2, raw3, completed, stage1_results, stage2_results,
                   label_to_member, aggregate_rankings, called, offRunVars>>

Next ==
    \/ \E cfg \in CouncilConfigs : StartRun(cfg)
    \/ \E i \in DOMAIN raw1 : \E o \in Outcomes({AnswerText(i)}) : SettleStage1(i, o)
    \/ JoinStage1
    \/ \E i \in DOMAIN raw2 : \E o \in Outcomes(RankingTexts) : SettleStage2(i, o)
    \/ JoinStage2
    \/ \E o \in Outcomes(SynthesisTexts) : SettleStage3(o)
    \/ Return

Spec == Init /\ [][Next]_vars

----------------------------------------------------------------------------
(* stage1_collect_responses called on its own                                  *)

\* stage1_collect_responses returns to its caller
Stage1Returns ==
    /\ pc = "stage1"
    /\ AllSettled(raw1)
    /\ pc' = IF FanOutRejects(called.stage1, raw1) THEN "threw" ELSE "stage1_returned"
    /\ stage1_results' =
           IF FanOutRejects(called.stage1, raw1) THEN stage1_results
           ELSE stage1_collect_responses(called.stage1, raw1, completed)
    /\ UNCHANGED <<config, raw1, raw2, raw3, completed, stage2_results, label_to_member,
                   aggregate_rankings, result, called, offRunVars>>

NextStage1 ==
    \/ \E cfg \in CouncilConfigs : StartRun(cfg)
    \/ \E i \in DOMAIN raw1 : \E o \in Outcomes({AnswerText(i)}) : SettleStage1(i, o)
    \/ Stage1Returns

SpecStage1 == Init /\ [][NextStage1]_vars

----------------------------------------------------------------------------
(* calculate_aggregate_rankings called on its own, on any peer rankings and    *)
(* any label map                                                               *)

\* a name typed into the name field of the roster editor
NumeralName == "2"

MemberNames == {m.name : m \in MemberPool} \cup {NumeralName}

\* the labels a parsed ranking is made of
ParsedLabels == {Label(0), Label(1)}

ParsedRankings == SeqsUpTo(ParsedLabels, 0, MaxParsedLen)

Reviewer == DEFAULT_COUNCIL_MEMBERS[1]

RankingOf(parsed) ==
    [member |-> Reviewer.name, model |-> Reviewer.modelId, provider |-> Reviewer.provider,
     ranking |-> parsed, parsed_ranking |-> parsed]

Stage2Inputs == SeqsUpTo({RankingOf(p) : p \in ParsedRankings}, 0, MaxRankings)

\* the label maps of 0, 1 and 2 Stage 1 responses: a label beyond the map does not resolve
LabelMaps ==
    UNION {[{Label(i) : i \in 0..(k - 1)} -> MemberNames] : k \in 0..Cardinality(ParsedLabels)}

InitAgg ==
    /\ UiIdle
    /\ GateIdle
    /\ RunIdle
    /\ ParseIdle
    /\ ConfigIdle
    /\ agg_stage2 \in Stage2Inputs
    /\ agg_labels \in LabelMaps
    /\ agg_out = <<>>
    /\ agg_pc = "ready"

CallAggregate ==
    /\ agg_pc = "ready"
    /\ agg_pc' = "returned"
    /\ agg_out' = calculate_aggregate_rankings(agg_stage2, agg_labels)
    /\ UNCHANGED <<agg_stage2, agg_labels, offAggVars>>

NextAgg == CallAggregate

SpecAgg == InitAgg /\ [][NextAgg]_vars

----------------------------------------------------------------------------
(* parse_ranking_from_text called on its own, on any text                      *)

\* the tokens a text is made of
TextTokens == {Marker, NumberDot, Label(0), Label(1), Prose}

Texts == SeqsUpTo(TextTokens, 0, MaxTextLen)

InitParse ==
    /\ UiIdle
    /\ GateIdle
    /\ RunIdle
    /\ AggIdle
    /\ ConfigIdle
    /\ parse_text \in Texts
    /\ parse_out = <<>>
    /\ parse_pc = "ready"

CallParse ==
    /\ parse_pc = "ready"
    /\ parse_pc' = "returned"
    /\ parse_out' = parse_ranking_from_text(parse_text)
    /\ UNCHANGED <<parse_text, offParseVars>>

NextParse == CallParse

SpecParse == InitParse /\ [][NextParse]_vars

----------------------------------------------------------------------------
(* The run under fair scheduling: every call the provider has in flight is     *)
(* settled in the end, and the event loop runs every continuation that is      *)
(* ready.  Termination does not depend on what the texts say, so the texts     *)
(* are the plain ones.                                                         *)

ProviderSettles1 == \E i \in DOMAIN raw1 : \E o \in PlainOutcomes : SettleStage1(i, o)
ProviderSettles2 == \E i \in DOMAIN raw2 : \E o \in PlainOutcomes : SettleStage2(i, o)
ProviderSettles3 == \E o \in PlainOutcomes : SettleStage3(o)

NextLive ==
    \/ \E cfg \in CouncilConfigs : StartRun(cfg)
    \/ ProviderSettles1
    \/ JoinStage1
    \/ ProviderSettles2
    \/ JoinStage2
    \/ ProviderSettles3
    \/ Return

SpecLive ==
    /\ Init
    /\ [][NextLive]_vars
    /\ WF_vars(ProviderSettles1)
    /\ WF_vars(JoinStage1)
    /\ WF_vars(ProviderSettles2)
    /\ WF_vars(JoinStage2)
    /\ WF_vars(ProviderSettles3)
    /\ WF_vars(Return)

----------------------------------------------------------------------------
(* The roster editor of AgentCouncilMode and the configuration store          *)

MaxCouncilMembers == 10

Defaults == [members |-> default_members, chairman |-> default_chairman]

\* { members: councilMembers, chairman } as the handlers read it
EditorConfig ==
    [members |-> [i \in DOMAIN councilMembers |-> Deref(councilMembers[i], default_members)],
     chairman |-> Deref(chairman, <<default_chairman>>)]

\* modelOptions[provider][0]?.id: the first model of the list loaded for the provider
FirstModel(provider) ==
    IF provider = "groq" THEN DEFAULT_COUNCIL_MEMBERS[1].modelId
    ELSE IF provider = "together" THEN DEFAULT_COUNCIL_MEMBERS[4].modelId
    ELSE DEFAULT_COUNCIL_MEMBERS[5].modelId

\* the edits, saves and resets the editor may make
EditBudget == IF pc = "idle" THEN MaxEdits ELSE MaxEditsInFlight

\* the React state after the component has mounted: useState(get_council_members()),
\* useState(get_chairman()), then the effect that loads the saved configuration
MountedMembers(stored, denied) ==
    LET saved == loadCouncilConfig(stored, denied).value
    IN IF saved # <<>> THEN [i \in DOMAIN saved[1].members |-> Own(saved[1].members[i])]
       ELSE [i \in DOMAIN DEFAULT_COUNCIL_MEMBERS |-> Shared(i)]

MountedChairman(stored, denied) ==
    LET saved == loadCouncilConfig(stored, denied).value
    IN IF saved # <<>> THEN Own(saved[1].chairman) ELSE Shared(1)

\* a configuration an earlier session has saved
EarlierConfig ==
    [members |-> <<DEFAULT_COUNCIL_MEMBERS[2], DEFAULT_COUNCIL_MEMBERS[1]>>,
     chairman |-> [name |-> "Chair", provider |-> "groq",
                   modelId |-> DEFAULT_COUNCIL_MEMBERS[1].modelId]]

StoredTexts == {NoItem, NotJson, JsonStringify(EarlierConfig)}

InitConfig ==
    /\ UiIdle
    /\ GateIdle
    /\ RunIdle
    /\ AggIdle
    /\ ParseIdle
    /\ storage_denied \in BOOLEAN
    /\ storage \in (IF storage_denied THEN {NoItem} ELSE StoredTexts)
    /\ default_members = DEFAULT_COUNCIL_MEMBERS
    /\ default_chairman = DEFAULT_CHAIRMAN
    /\ councilMembers = MountedMembers(storage, storage_denied)
    /\ chairman = MountedChairman(storage, storage_denied)
    /\ edits = 0
    /\ last_call = NoCall
    /\ got = NothingGot
    /\ last_saved = loadCouncilConfig(storage, storage_denied).value

\* getCouncilConfig() is called (by get_council_members, get_chairman, a stage)
CallGetCouncilConfig ==
    /\ got' = [loaded |-> loadCouncilConfig(storage, storage_denied),
               config |-> getCouncilConfig(storage, storage_denied, Defaults)]
    /\ last_call' = [op |-> "get",
                     failed |-> storage_denied \/ (storage # NoItem /\ ~IsJson(storage)),
                     raised |-> got'.loaded.raised \/ got'.config.raised]
    /\ UNCHANGED <<storeVars, editorVars, last_saved, offConfigVars>>

\* fails says that this setItem throws although the storage grants access
handleSaveConfig(fails) ==
    /\ edits < EditBudget
    /\ edits' = edits + 1
    /\ LET saved == saveCouncilConfig(storage, EditorConfig, fails \/ storage_denied)
       IN /\ storage' = saved.value
          /\ last_call' = [op |-> "save", failed |-> fails \/ storage_denied,
                           raised |-> saved.raised]
          /\ last_saved' = IF fails \/ storage_denied THEN last_saved ELSE <<EditorConfig>>
    /\ UNCHANGED <<storage_denied, default_members, default_chairman, councilMembers,
                   chairman, got, offConfigVars>>

handleResetConfig(fails) ==
    /\ edits < EditBudget
    /\ edits' = edits + 1
    /\ councilMembers' = [i \in DOMAIN default_members |-> Shared(i)]
    /\ chairman' = Shared(1)
    /\ LET saved == saveCouncilConfig(storage, Defaults, fails \/ storage_denied)
       IN /\ storage' = saved.value
          /\ last_call' = [op |-> "reset", failed |-> fails \/ storage_denied,
                           raised |-> saved.raised]
          /\ last_saved' = IF fails \/ storage_denied THEN last_saved ELSE <<Defaults>>
    /\ UNCHANGED <<storage_denied, default_members, default_chairman, got, offConfigVars>>

\* the member added whatever the size of the roster
handleAddMember_uncapped ==
    /\ edits < EditBudget
    /\ edits' = edits + 1
    /\ last_call' = [op |-> "add", failed |-> FALSE, raised |-> FALSE]
    /\ councilMembers' =
           Append(councilMembers,
                  Own([name |-> "Member " \o ToString(Len(councilMembers) + 1),
                       provider |-> "groq", modelId |-> FirstModel("groq")]))
    /\ UNCHANGED <<storeVars, chairman, got, last_saved, offConfigVars>>

handleAddMember ==
    /\ edits < EditBudget
    /\ edits' = edits + 1
    /\ IF Len(councilMembers) >= MaxCouncilMembers
       THEN /\ last_call' = [op |-> "add", failed |-> TRUE, raised |-> FALSE]
            /\ UNCHANGED councilMembers
       ELSE /\ last_call' = [op |-> "add", failed |-> FALSE, raised |-> FALSE]
            /\ councilMembers' =
                   Append(councilMembers,
                          Own([name |-> "Member " \o ToString(Len(councilMembers) + 1),
                               provider |-> "groq", modelId |-> FirstModel("groq")]))
    /\ UNCHANGED <<storeVars, chairman, got, last_saved, offConfigVars>>

handleRemoveMember(index) ==
    /\ edits < EditBudget
    /\ edits' = edits + 1
    /\ IF Len(councilMembers) <= MinMembers
       THEN /\ last_call' = [op |-> "remove", failed |-> TRUE, raised |-> FALSE]
            /\ UNCHANGED councilMembers
       ELSE /\ last_call' = [op |-> "remove", failed |-> FALSE, raised |-> FALSE]
            /\ councilMembers' =
                   [i \in 1..(Len(councilMembers) - 1) |->
                       IF i < index THEN councilMembers[i] ELSE councilMembers[i + 1]]
    /\ UNCHANGED <<storeVars, chairman, got, last_saved, offConfigVars>>

\* the member object of the state written in place: councilMembers[index][field] = value
handleUpdateMember_in_place(index, field, value) ==
    /\ edits < EditBudget
    /\ edits' = edits + 1
    /\ last_call' = [op |-> "update", failed |-> FALSE, raised |-> FALSE]
    /\ LET cell == councilMembers[index]
           written == [Deref(cell, default_members) EXCEPT ![field] = value]
       IN IF cell.ref = 0
          THEN /\ councilMembers' = [councilMembers EXCEPT ![index] = Own(written)]
               /\ UNCHANGED default_members
          ELSE /\ default_members' = [default_members EXCEPT ![cell.ref] = written]
               /\ UNCHANGED councilMembers
    /\ UNCHANGED <<storage, storage_denied, default_chairman, chairman, got, last_saved,
                   offConfigVars>>

handleUpdateMember(index, field, value) ==
    /\ edits < EditBudget
    /\ edits' = edits + 1
    /\ last_call' = [op |-> "update", failed |-> FALSE, raised |-> FALSE]
    /\ LET copy == [Deref(councilMembers[index], default_members) EXCEPT ![field] = value]
           updated == IF field = "provider"
                      THEN [copy EXCEPT !.modelId = FirstModel(value)] ELSE copy
       IN councilMembers' = [councilMembers EXCEPT ![index] = Own(updated)]
    /\ UNCHANGED <<storeVars, chairman, got, last_saved, offConfigVars>>

\* the chairman card writing each change through to the store
handleChairmanChange_autosave(field, value) ==
    /\ edits < EditBudget
    /\ edits' = edits + 1
    /\ last_call' = [op |-> "chairman", failed |-> FALSE, raised |-> FALSE]
    /\ LET copy == [Deref(chairman, <<default_chairman>>) EXCEPT ![field] = value]
       IN chairman' = Own(IF field = "provider"
                          THEN [copy EXCEPT !.modelId = FirstModel(value)] ELSE copy)
    /\ storage' = saveCouncilConfig(storage,
                                    [members |-> EditorConfig.members,
                                     chairman |-> chairman'.own],
                                    storage_denied).value
    /\ UNCHANGED <<storage_denied, default_members, default_chairman, councilMembers, got,
                   last_saved, offConfigVars>>

\* the three inline handlers of the chairman card: setChairman({ ...chairman, ... })
handleChairmanChange(field, value) ==
    /\ edits < EditBudget
    /\ edits' = edits + 1
    /\ last_call' = [op |-> "chairman", failed |-> FALSE, raised |-> FALSE]
    /\ LET copy == [Deref(chairman, <<default_chairman>>) EXCEPT ![field] = value]
       IN chairman' = Own(IF field = "provider"
                          THEN [copy EXCEPT !.modelId = FirstModel(value)] ELSE copy)
    /\ UNCHANGED <<storeVars, councilMembers, got, last_saved, offConfigVars>>

\* the page is loaded again: the module and the component start afresh
Reload ==
    /\ pc = "idle"
    /\ default_members' = DEFAULT_COUNCIL_MEMBERS
    /\ default_chairman' = DEFAULT_CHAIRMAN
    /\ councilMembers' = MountedMembers(storage, storage_denied)
    /\ chairman' = MountedChairman(storage, storage_denied)
    /\ last_call' = [op |-> "reload", failed |-> FALSE, raised |-> FALSE]
    /\ UNCHANGED <<storage, storage_denied, edits, got, last_saved, offConfigVars>>

\* the field edits a user makes
MemberEdits == {<<"name", NumeralName>>, <<"provider", "together">>}
ChairmanEdits == {<<"name", "Chair">>, <<"provider", "groq">>}

NextConfig ==
    \/ CallGetCouncilConfig
    \/ \E fails \in BOOLEAN : handleSaveConfig(fails)
    \/ \E fails \in BOOLEAN : handleResetConfig(fails)
    \/ handleAddMember
    \/ \E index \in DOMAIN councilMembers : handleRemoveMember(index)
    \/ \E index \in DOMAIN councilMembers : \E e \in MemberEdits :
          handleUpdateMember(index, e[1], e[2])
    \/ \E e \in ChairmanEdits : handleChairmanChange(e[1], e[2])
    \/ Reload

SpecConfig == InitConfig /\ [][NextConfig]_vars

----------------------------------------------------------------------------
(* The editor used while a run is in flight                                    *)

\* the configurations an earlier session may have saved for the run to start from
SavedConfigs ==
    {[members |-> SubSeq(DEFAULT_COUNCIL_MEMBERS, 1, n), chairman |-> c] :
        n \in MinMembers..MaxMembers, c \in {DEFAULT_CHAIRMAN, EarlierConfig.chairman}}

\* a call throws or answers
TwoOutcomes == {Thrown, Content(<<Prose>>)}

InitEdit ==
    /\ UiIdle
    /\ GateIdle
    /\ RunIdle
    /\ AggIdle
    /\ ParseIdle
    /\ storage_denied = FALSE
    /\ storage \in {JsonStringify(cfg) : cfg \in SavedConfigs}
    /\ default_members = DEFAULT_COUNCIL_MEMBERS
    /\ default_chairman = DEFAULT_CHAIRMAN
    /\ councilMembers = MountedMembers(storage, storage_denied)
    /\ chairman = MountedChairman(storage, storage_denied)
    /\ edits = 0
    /\ last_call = NoCall
    /\ got = NothingGot
    /\ last_saved = loadCouncilConfig(storage, storage_denied).value

\* the call handleSubmit makes: run_full_council(query, { members: councilMembers, chairman })
SubmitEditorConfig ==
    /\ Len(councilMembers) <= MaxMembers
    /\ StartRun(EditorConfig)

InFlight_run == pc \in {"stage1", "stage2", "stage3"}

EditorStep ==
    \/ \E fails \in BOOLEAN : handleSaveConfig(fails)
    \/ \E fails \in BOOLEAN : handleResetConfig(fails)
    \/ handleAddMember
    \/ \E index \in DOMAIN councilMembers : handleRemoveMember(index)
    \/ \E index \in DOMAIN councilMembers : \E e \in MemberEdits :
          handleUpdateMember(index, e[1], e[2])
    \/ \E e \in ChairmanEdits : handleChairmanChange(e[1], e[2])

NextEdit ==
    \/ SubmitEditorConfig
    \/ \E i \in DOMAIN raw1 : \E o \in TwoOutcomes : SettleStage1(i, o)
    \/ JoinStage1
    \/ \E i \in DOMAIN raw2 : \E o \in TwoOutcomes : SettleStage2(i, o)
    \/ JoinStage2
    \/ \E o \in TwoOutcomes : SettleStage3(o)
    \/ Return
    \/ (InFlight_run /\ EditorStep)

SpecEdit == InitEdit /\ [][NextEdit]_vars

----------------------------------------------------------------------------
(* The roster editor on rosters of every size                                  *)

\* the roster at its largest: the default members and the members added to them
\* in the editor up to the cap
FullRoster ==
    DEFAULT_COUNCIL_MEMBERS \o
    [i \in 1..(MaxCouncilMembers - Len(DEFAULT_COUNCIL_MEMBERS)) |->
        [name |-> "Member " \o ToString(Len(DEFAULT_COUNCIL_MEMBERS) + i),
         provider |-> "groq", modelId |-> FirstModel("groq")]]

FullConfig == [members |-> FullRoster, chairman |-> DEFAULT_CHAIRMAN]

\* what the editor has saved in an earlier session: nothing, its smallest roster,
\* its largest roster
RosterTexts == {NoItem, JsonStringify(EarlierConfig), JsonStringify(FullConfig)}

InitRoster ==
    /\ UiIdle
    /\ GateIdle
    /\ RunIdle
    /\ AggIdle
    /\ ParseIdle
    /\ storage_denied = FALSE
    /\ storage \in RosterTexts
    /\ default_members = DEFAULT_COUNCIL_MEMBERS
    /\ default_chairman = DEFAULT_CHAIRMAN
    /\ councilMembers = MountedMembers(storage, storage_denied)
    /\ chairman = MountedChairman(storage, storage_denied)
    /\ edits = 0
    /\ last_call = NoCall
    /\ got = NothingGot
    /\ last_saved = loadCouncilConfig(storage, storage_denied).value

\* the first and the last card of the roster
EndCards == {1, Len(councilMembers)}

NextRoster ==
    \/ \E fails \in BOOLEAN : handleSaveConfig(fails)
    \/ \E fails \in BOOLEAN : handleResetConfig(fails)
    \/ handleAddMember
    \/ \E index \in EndCards : handleRemoveMember(index)
    \/ \E e \in MemberEdits : handleUpdateMember(1, e[1], e[2])
    \/ Reload

SpecRoster == InitRoster /\ [][NextRoster]_vars

----------------------------------------------------------------------------
(* The council dialog: submissions and sessions                                *)
(*                                                                             *)
(* A handleSubmit in flight is at the place that isLoading, the position of    *)
(* run_full_council and currentStage tell: waiting before the call of          *)
(* run_full_council, awaiting it, or in one of the two waits after it.  What   *)
(* it reads of the React state is what its render held: closure.  A session    *)
(* is its id and the ids of its turns.                                         *)

MaxRuns == 2            \* most council turns recorded

\* what is typed into the textarea
Inputs == {"", " ", "hi", " hi "}

\* text.trim()
Trim(text) ==
    IF text = " " THEN "" ELSE IF text = " hi " THEN "hi" ELSE text

Providers == {"groq", "together", "openrouter"}

\* the credentials a browser may hold
Credentials == {{}, {"openrouter"}, {"groq", "together"}}

is_council_available(keys) ==
    "groq" \in keys \/ "together" \in keys \/ "openrouter" \in keys

councilAvailable == is_council_available(configured)

\* the input taken as it is
CanSubmit_untrimmed(text, loading, available) ==
    ~(text = "" \/ loading \/ ~available)

\* if (!input.trim() || isLoading || !councilAvailable) return;
CanSubmit(text, loading, available) ==
    ~(Trim(text) = "" \/ loading \/ ~available)

\* onChange of the textarea, which is disabled while loading or unavailable
setInput(text) ==
    /\ ~(isLoading \/ ~councilAvailable)
    /\ input' = text
    /\ UNCHANGED <<isLoading, currentStage, sessions, currentSessionId, stored_sessions,
                   configured, closure, in_flight, deleted, now>>
    /\ UNCHANGED <<runVars, councilMembers, chairman, offUiVars>>

\* handleSubmit up to its first await
handleSubmit ==
    /\ now < MaxRuns
    /\ CanSubmit(input, isLoading, councilAvailable)
    /\ input' = ""
    /\ isLoading' = TRUE
    /\ currentStage' = "stage1"
    /\ closure' = [sessions |-> sessions, currentSessionId |-> currentSessionId,
                   query |-> Trim(input), config |-> EditorConfig]
    /\ in_flight' = in_flight + 1
    /\ UNCHANGED <<sessions, currentSessionId, stored_sessions, configured, deleted, now>>
    /\ UNCHANGED <<runVars, councilMembers, chairman, offUiVars>>

\* the first wait is over: run_full_council(query, { members: councilMembers, chairman })
CallRunFullCouncil ==
    /\ in_flight > 0
    /\ StartRun(closure.config)

\* setCurrentStage(stage) in the handler in flight, which goes on waiting
ShowStage(stage) ==
    /\ currentStage' = stage
    /\ UNCHANGED <<input, isLoading, sessions, currentSessionId, stored_sessions,
                   configured, closure, in_flight, deleted, now>>
    /\ UNCHANGED <<runVars, councilMembers, chairman, offUiVars>>

\* the handler in flight ends: finally { setIsLoading(false) }, and the run it
\* awaited is gone
EndSubmit ==
    /\ isLoading' = FALSE
    /\ in_flight' = in_flight - 1
    /\ closure' = NoClosure
    /\ pc' = "idle"
    /\ config' = NoConfig
    /\ raw1' = <<>>
    /\ raw2' = <<>>
    /\ raw3' = NotIssued
    /\ completed' = <<>>
    /\ stage1_results' = <<>>
    /\ stage2_results' = <<>>
    /\ label_to_member' = EmptyMap
    /\ aggregate_rankings' = <<>>
    /\ result' = NoResult
    /\ called' = NobodyCalled

\* the await of run_full_council resumes: with a result the handler shows
\* stage 2 and waits, with an error it goes through catch and finally
RunSettles ==
    /\ in_flight > 0
    /\ currentStage = "stage1"
    /\ pc \in {"done", "threw"}
    /\ IF pc = "threw"
       THEN /\ currentStage' = "idle"
            /\ EndSubmit
            /\ UNCHANGED <<input, sessions, currentSessionId, stored_sessions, configured,
                           deleted, now>>
            /\ UNCHANGED <<councilMembers, chairman, offUiVars>>
       ELSE ShowStage("stage2")

\* the second wait is over
SecondWaitEnds ==
    /\ in_flight > 0
    /\ currentStage = "stage2"
    /\ ShowStage("stage3")

\* sessions.find((s) => s.id === id): <<>> for undefined
FindSession(list, id) == SelectSeq(list, LAMBDA session : session.id = id)

\* the turn recorded at the time t
NewTurn(t) == t

\* the session list the handler writes, from the list its render held
WithTurn(held, heldId, t) ==
    IF heldId # NoSession /\ FindSession(held, heldId) # <<>>
    THEN [i \in DOMAIN held |->
             IF held[i].id = heldId
             THEN [held[i] EXCEPT !.turns = Append(@, NewTurn(t))]
             ELSE held[i]]
    ELSE <<[id |-> t, turns |-> <<NewTurn(t)>>]>> \o held

\* the decimal numerals of the ids
IdKeys == [n \in 0..9 |-> ToString(n)]

IdOfKey(key) == CHOOSE n \in DOMAIN IdKeys : IdKeys[n] = key

RECURSIVE StringifySessions(_)
StringifySessions(list) ==
    IF list = <<>> THEN <<>>
    ELSE <<"{", IdKeys[Head(list).id]>>
         \o [j \in DOMAIN Head(list).turns |-> IdKeys[Head(list).turns[j]]]
         \o <<"}">> \o StringifySessions(Tail(list))

\* JSON.stringify(newSessions): [{id, turns: [...]}, ...]
JsonStringifySessions(list) == <<"[">> \o StringifySessions(list) \o <<"]">>

RECURSIVE ParseSessions(_)
ParseSessions(tokens) ==
    IF tokens = <<>> THEN <<>>
    ELSE LET close == CHOOSE k \in DOMAIN tokens :
                          tokens[k] = "}" /\ \A j \in 1..(k - 1) : tokens[j] # "}"
         IN <<[id |-> IdOfKey(tokens[2]),
               turns |-> [j \in 1..(close - 3) |-> IdOfKey(tokens[2 + j])]]>>
            \o ParseSessions(SubSeq(tokens, close + 1, Len(tokens)))

\* the sessions the mount effect installs: none when nothing is stored, else
\* JSON.parse(savedSessions) with its dates made anew
LoadSessions(stored) ==
    IF stored = NoItem THEN <<>>
    ELSE ParseSessions(SubSeq(stored, 2, Len(stored) - 1))

\* the write is made whatever comes of it: no try/catch around setItem
saveSessions_no_catch(stored, newSessions, fails) ==
    IF fails THEN RaisedError
    ELSE [raised |-> FALSE, value |-> JsonStringifySessions(newSessions)]

\* fails says that setItem throws (quota exceeded); the value is the item under
\* SESSIONS_STORAGE_KEY afterwards
saveSessions(stored, newSessions, fails) ==
    [raised |-> FALSE,
     value |-> IF fails THEN stored ELSE JsonStringifySessions(newSessions)]

\* the third wait is over: the turn is added to the current session or to a new
\* one, the list is stored, and the handler ends; an error raised by the write
\* would be caught by the handler, which sets the stage to idle
CompleteSubmit(fails) ==
    /\ in_flight > 0
    /\ currentStage = "stage3"
    /\ now' = now + 1
    /\ sessions' = WithTurn(closure.sessions, closure.currentSessionId, now')
    /\ LET written == saveSessions(stored_sessions, sessions', fails)
       IN /\ stored_sessions' = IF written.raised THEN stored_sessions ELSE written.value
          /\ currentStage' = IF written.raised THEN "idle" ELSE "complete"
    /\ currentSessionId' =
           IF closure.currentSessionId # NoSession
              /\ FindSession(closure.sessions, closure.currentSessionId) # <<>>
           THEN currentSessionId ELSE now'
    /\ EndSubmit
    /\ UNCHANGED <<input, configured, deleted>>
    /\ UNCHANGED <<councilMembers, chairman, offUiVars>>

handleNewSession ==
    /\ currentSessionId' = NoSession
    /\ UNCHANGED <<input, isLoading, currentStage, sessions, stored_sessions, configured,
                   closure, in_flight, deleted, now>>
    /\ UNCHANGED <<runVars, councilMembers, chairman, offUiVars>>

handleSelectSession(sessionId) ==
    /\ currentSessionId' = sessionId
    /\ UNCHANGED <<input, isLoading, currentStage, sessions, stored_sessions, configured,
                   closure, in_flight, deleted, now>>
    /\ UNCHANGED <<runVars, councilMembers, chairman, offUiVars>>

\* the session is removed and the current session left as it is
handleDeleteSession_keeps_current(sessionId, fails) ==
    /\ sessions' = SelectSeq(sessions, LAMBDA session : session.id # sessionId)
    /\ stored_sessions' = saveSessions(stored_sessions, sessions', fails).value
    /\ currentSessionId' = currentSessionId
    /\ deleted' = deleted \cup {sessionId}
    /\ UNCHANGED <<input, isLoading, currentStage, configured, closure, in_flight, now>>
    /\ UNCHANGED <<runVars, councilMembers, chairman, offUiVars>>

\* an error raised by the write would end the handler before the current
\* session is looked at
handleDeleteSession(sessionId, fails) ==
    /\ sessions' = SelectSeq(sessions, LAMBDA session : session.id # sessionId)
    /\ LET written == saveSessions(stored_sessions, sessions', fails)
       IN /\ stored_sessions' = IF written.raised THEN stored_sessions ELSE written.value
          /\ currentSessionId' = IF currentSessionId = sessionId /\ ~written.raised
                                 THEN NoSession ELSE currentSessionId
    /\ deleted' = deleted \cup {sessionId}
    /\ UNCHANGED <<input, isLoading, currentStage, configured, closure, in_flight, now>>
    /\ UNCHANGED <<runVars, councilMembers, chairman, offUiVars>>

\* the page is loaded again: the handler in flight is gone with the page, the
\* component mounts and its effect loads the stored configuration and sessions
ReloadPage ==
    /\ input' = ""
    /\ currentStage' = "idle"
    /\ sessions' = LoadSessions(stored_sessions)
    /\ currentSessionId' = NoSession
    /\ councilMembers' = MountedMembers(storage, storage_denied)
    /\ chairman' = MountedChairman(storage, storage_denied)
    /\ in_flight' = 0
    /\ isLoading' = FALSE
    /\ closure' = NoClosure
    /\ pc' = "idle"
    /\ config' = NoConfig
    /\ raw1' = <<>>
    /\ raw2' = <<>>
    /\ raw3' = NotIssued
    /\ completed' = <<>>
    /\ stage1_results' = <<>>
    /\ stage2_results' = <<>>
    /\ label_to_member' = EmptyMap
    /\ aggregate_rankings' = <<>>
    /\ result' = NoResult
    /\ called' = NobodyCalled
    /\ UNCHANGED <<stored_sessions, configured, deleted, now, offUiVars>>

SessionIds == {sessions[i].id : i \in DOMAIN sessions}

\* a configuration saved with a member renamed in the editor to the name of a
\* property every object inherits
InheritedNameConfig ==
    [members |-> <<[DEFAULT_COUNCIL_MEMBERS[2] EXCEPT !.name = "constructor"],
                   DEFAULT_COUNCIL_MEMBERS[1]>>,
     chairman |-> EarlierConfig.chairman]

\* a ranking call throws or answers with a text that names the first response
RankingOutcomes == {Thrown, Content(<<Label(0)>>)}

InitUI ==
    /\ GateIdle
    /\ RunIdle
    /\ AggIdle
    /\ ParseIdle
    /\ storage_denied = FALSE
    /\ storage \in {JsonStringify(EarlierConfig), JsonStringify(InheritedNameConfig)}
    /\ default_members = DEFAULT_COUNCIL_MEMBERS
    /\ default_chairman = DEFAULT_CHAIRMAN
    /\ councilMembers = MountedMembers(storage, storage_denied)
    /\ chairman = MountedChairman(storage, storage_denied)
    /\ edits = 0
    /\ last_call = NoCall
    /\ got = NothingGot
    /\ last_saved = loadCouncilConfig(storage, storage_denied).value
    /\ input = ""
    /\ isLoading = FALSE
    /\ currentStage = "idle"
    /\ sessions = <<>>
    /\ currentSessionId = NoSession
    /\ stored_sessions = NoItem
    /\ configured \in Credentials
    /\ closure = NoClosure
    /\ in_flight = 0
    /\ deleted = {}
    /\ now = 0

NextUI ==
    \/ \E text \in Inputs : setInput(text)
    \/ handleSubmit
    \/ CallRunFullCouncil
    \/ \E i \in DOMAIN raw1 : \E o \in TwoOutcomes : SettleStage1(i, o)
    \/ JoinStage1
    \/ \E i \in DOMAIN raw2 : \E o \in RankingOutcomes : SettleStage2(i, o)
    \/ JoinStage2
    \/ \E o \in TwoOutcomes : SettleStage3(o)
    \/ Return
    \/ RunSettles
    \/ SecondWaitEnds
    \/ CompleteSubmit(FALSE)
    \/ handleNewSession
    \/ \E sessionId \in SessionIds : handleSelectSession(sessionId)
    \/ \E sessionId \in SessionIds : handleDeleteSession(sessionId, FALSE)
    \/ ReloadPage

SpecUI == InitUI /\ [][NextUI]_vars

\* The dialog with writes of the session list that can fail (the quota of the
\* localStorage is exceeded).
NextSessions ==
    \/ \E text \in Inputs : setInput(text)
    \/ handleSubmit
    \/ CallRunFullCouncil
    \/ \E i \in DOMAIN raw1 : \E o \in TwoOutcomes : SettleStage1(i, o)
    \/ JoinStage1
    \/ \E i \in DOMAIN raw2 : \E o \in RankingOutcomes : SettleStage2(i, o)
    \/ JoinStage2
    \/ \E o \in TwoOutcomes : SettleStage3(o)
    \/ Return
    \/ RunSettles
    \/ SecondWaitEnds
    \/ \E fails \in BOOLEAN : CompleteSubmit(fails)
    \/ handleNewSession
    \/ \E sessionId \in SessionIds : handleSelectSession(sessionId)
    \/ \E sessionId \in SessionIds : \E fails \in BOOLEAN : handleDeleteSession(sessionId, fails)
    \/ ReloadPage

SpecSessions == InitUI /\ [][NextSessions]_vars

\* weak fairness of JoinStage2, with the condition under which it can be taken
\* written out
JoinStage2Fair ==
    \/ []<>(~(pc = "stage2" /\ AllSettled(raw2)))
    \/ []<><<JoinStage2>>_vars

\* The dialog under fair scheduling: the timers of the waits fire, every call
\* in flight settles and every continuation that is ready runs.
SpecUILive ==
    /\ SpecUI
    /\ WF_vars(CallRunFullCouncil)
    /\ WF_vars(\E i \in DOMAIN raw1 : \E o \in TwoOutcomes : SettleStage1(i, o))
    /\ WF_vars(JoinStage1)
    /\ WF_vars(\E i \in DOMAIN raw2 : \E o \in RankingOutcomes : SettleStage2(i, o))
    /\ JoinStage2Fair
    /\ WF_vars(\E o \in TwoOutcomes : SettleStage3(o))
    /\ WF_vars(Return)
    /\ WF_vars(RunSettles)
    /\ WF_vars(SecondWaitEnds)
    /\ WF_vars(CompleteSubmit(FALSE))

----------------------------------------------------------------------------
(* The password gate: PasswordProtection                                       *)
(*                                                                             *)
(* Time is counted in units of 7.5 minutes, the countdown of the lock panel    *)
(* in the same units.  The page is open in two tabs, which share the           *)
(* localStorage and have a sessionStorage each.                                *)

MAX_ATTEMPTS == 5
LOCKOUT_DURATION == 2       \* 15 minutes
SESSION_TIMEOUT == 8        \* 60 minutes

MaxClock == 4               \* the latest time of the gate

\* import.meta.env.VITE_APP_PASSWORD || "test123"
correctPassword == "test123"

\* what is typed into the password field
Passwords == {"test123", "guess"}

\* generateToken(): random bytes, here one token for each tab
generateToken(tab) == IF tab = 1 THEN "t1" ELSE "t2"

\* the digest of the password, taken as free of collisions
hashPassword(password) == <<"sha256", password>>

\* getItem(key) is truthy
Present(item) == item.kind # "none"

\* parseInt(item, 10) is a number and not NaN
IsNumber(item) == item.kind = "number"

encryptData(data, salt) == [kind |-> "cipher", plain |-> data, salt |-> salt]

\* the data come back under the salt they were written with; atob throws on a
\* text that is no base64 and "" is returned
decryptData(encrypted, salt) ==
    IF encrypted.kind # "cipher" THEN ""
    ELSE IF encrypted.salt = salt THEN encrypted.plain ELSE "garbled"

\* local is the two localStorage items, g the React state, t Date.now()
checkLockout(local, g, t) ==
    IF Present(local.lockout)
    THEN IF IsNumber(local.lockout) /\ t < local.lockout.n
         THEN [locked |-> TRUE, local |-> local,
               gate |-> [g EXCEPT !.isLocked = TRUE,
                                  !.remainingTime = local.lockout.n - t]]
         ELSE [locked |-> FALSE, local |-> NoAuthLocal,
               gate |-> [g EXCEPT !.isLocked = FALSE, !.attempts = 0]]
    ELSE [locked |-> FALSE, local |-> local, gate |-> g]

\* stored is the three sessionStorage items, t Date.now(); cleared says that
\* clearAuthData was called
validateSession(stored, t) ==
    IF ~Present(stored.session) \/ ~Present(stored.timestamp) \/ stored.token = ""
    THEN [accepted |-> FALSE, cleared |-> FALSE, session |-> stored]
    ELSE IF IsNumber(stored.timestamp) /\ t - stored.timestamp.n > SESSION_TIMEOUT
         THEN [accepted |-> FALSE, cleared |-> TRUE, session |-> NoAuthSession]
         ELSE IF decryptData(stored.session, stored.token) # "authenticated"
              THEN [accepted |-> FALSE, cleared |-> TRUE, session |-> NoAuthSession]
              ELSE [accepted |-> TRUE, cleared |-> FALSE,
                    session |-> [stored EXCEPT !.timestamp = Num(t)]]

\* the effect run on mount and when isAuthenticated has changed: checkLockout(),
\* then setIsAuthenticated(true) if validateSession()
SessionCheck(local, stored, g, t) ==
    LET c == checkLockout(local, g, t)
        v == validateSession(stored, t)
    IN [local |-> c.local,
        session |-> v.session,
        gate |-> IF v.accepted THEN [c.gate EXCEPT !.isAuthenticated = TRUE]
                 ELSE IF v.cleared THEN [c.gate EXCEPT !.isAuthenticated = FALSE]
                 ELSE c.gate]

\* the wrong submissions counted after a step that leaves local as the two items
MissesAfter(local) ==
    IF Present(auth_local.attempts) /\ ~Present(local.attempts) THEN 0 ELSE misses

\* the countdown interval of the tab is set anew when isLocked or remainingTime
\* has changed; there is none (0) while the tab is not locked
TimerAfter(tab, g) ==
    IF ~g.isLocked \/ g.remainingTime <= 0 THEN 0
    ELSE IF g.isLocked # gate[tab].isLocked \/ g.remainingTime # gate[tab].remainingTime
         THEN clock ELSE timer_set[tab]

\* the storage events queued for the other tabs by a step of the tab that
\* leaves local as the two items: setItem and removeItem fire one in every
\* other document when the value of the key has changed
EventsAfter(tab, local) ==
    [other \in Tabs |->
        IF other # tab /\ local # auth_local THEN TRUE ELSE storage_event[other]]

\* onChange of the password field, which the lock panel replaces while locked
setPassword(tab, password) ==
    /\ ~gate[tab].isAuthenticated
    /\ ~gate[tab].isLocked
    /\ ~gate[tab].isLoading
    /\ gate' = [gate EXCEPT ![tab].password = password]
    /\ UNCHANGED <<clock, auth_local, auth_session, submit, timer_set, storage_event,
                   misses, offGateVars>>

\* handleSubmit of PasswordProtection up to its first await; the button is
\* disabled while loading and for an empty password
SubmitPassword(tab) ==
    /\ ~gate[tab].isAuthenticated
    /\ ~gate[tab].isLoading
    /\ gate[tab].password # ""
    /\ submit[tab].pc = "idle"
    /\ ~gate[tab].isLocked
    /\ LET c == checkLockout(auth_local, gate[tab], clock)
       IN /\ auth_local' = c.local
          /\ storage_event' = EventsAfter(tab, c.local)
          /\ misses' = MissesAfter(c.local)
          /\ timer_set' = [timer_set EXCEPT ![tab] = TimerAfter(tab, c.gate)]
          /\ IF c.locked
             THEN /\ gate' = [gate EXCEPT ![tab] = c.gate]
                  /\ UNCHANGED submit
             ELSE /\ gate' = [gate EXCEPT ![tab] = [c.gate EXCEPT !.isLoading = TRUE]]
                  /\ submit' = [submit EXCEPT
                                   ![tab] = [pc |-> "hashing", password |-> gate[tab].password]]
    /\ UNCHANGED <<clock, auth_session, offGateVars>>

\* the failure count after a wrong password
WrongPassword(local, g, t) ==
    LET currentAttempts == IF Present(local.attempts) THEN local.attempts ELSE Num(0)
        counted == IsNumber(currentAttempts)
        newAttempts == IF counted THEN currentAttempts.n + 1 ELSE 0
        locks == counted /\ newAttempts >= MAX_ATTEMPTS
    IN [local |-> [attempts |-> IF counted THEN Num(newAttempts) ELSE NotANumber,
                   lockout |-> IF locks THEN Num(t + LOCKOUT_DURATION) ELSE local.lockout],
        gate |-> IF locks
                 THEN [g EXCEPT !.attempts = newAttempts, !.isLocked = TRUE,
                                !.remainingTime = LOCKOUT_DURATION, !.password = ""]
                 ELSE [g EXCEPT !.attempts = newAttempts, !.password = ""]]

\* the session is set up and the failure count left as it is
CorrectPassword_keeps_count(local, token, t) ==
    [local |-> local,
     session |-> [session |-> encryptData("authenticated", token),
                  timestamp |-> Num(t), token |-> token]]

\* the items after a correct password: the session is set up and the failure
\* count removed
CorrectPassword(local, token, t) ==
    [local |-> [local EXCEPT !.attempts = NoEntry],
     session |-> [session |-> encryptData("authenticated", token),
                  timestamp |-> Num(t), token |-> token]]

\* the hashes are there and the minimum processing time is over: the rest of
\* handleSubmit, and the effect that follows a change of isAuthenticated
FinishSubmit(tab, token) ==
    /\ submit[tab].pc = "hashing"
    /\ clock + LOCKOUT_DURATION <= MaxClock
    /\ submit' = [submit EXCEPT ![tab] = NoSubmit]
    /\ IF hashPassword(submit[tab].password) = hashPassword(correctPassword)
       THEN LET set == CorrectPassword(auth_local, token, clock)
                after ==
                    SessionCheck(set.local, set.session,
                                 [gate[tab] EXCEPT !.isAuthenticated = TRUE, !.password = "",
                                                   !.attempts = 0, !.isLoading = FALSE],
                                 clock)
            IN /\ auth_local' = after.local
               /\ storage_event' = EventsAfter(tab, after.local)
               /\ auth_session' = [auth_session EXCEPT ![tab] = after.session]
               /\ gate' = [gate EXCEPT ![tab] = after.gate]
               /\ misses' = 0
               /\ timer_set' = [timer_set EXCEPT ![tab] = TimerAfter(tab, after.gate)]
       ELSE LET after == WrongPassword(auth_local, gate[tab], clock)
            IN /\ auth_local' = after.local
               /\ storage_event' = EventsAfter(tab, after.local)
               /\ gate' = [gate EXCEPT ![tab] = [after.gate EXCEPT !.isLoading = FALSE]]
               /\ misses' = misses + 1
               /\ timer_set' = [timer_set EXCEPT ![tab] = TimerAfter(tab, after.gate)]
               /\ UNCHANGED auth_session
    /\ UNCHANGED <<clock, offGateVars>>

\* the interval of the countdown fires, a unit or more after it was set
CountdownTick(tab) ==
    /\ gate[tab].isLocked
    /\ gate[tab].remainingTime > 0
    /\ clock > timer_set[tab]
    /\ IF gate[tab].remainingTime <= 1
       THEN /\ gate' = [gate EXCEPT ![tab].isLocked = FALSE, ![tab].attempts = 0,
                                    ![tab].remainingTime = 0]
            /\ timer_set' = [timer_set EXCEPT ![tab] = 0]
            /\ auth_local' = NoAuthLocal
            /\ storage_event' = EventsAfter(tab, NoAuthLocal)
            /\ misses' = 0
       ELSE /\ gate' = [gate EXCEPT ![tab].remainingTime = @ - 1]
            /\ timer_set' = [timer_set EXCEPT ![tab] = clock]
            /\ UNCHANGED <<auth_local, storage_event, misses>>
    /\ UNCHANGED <<clock, auth_session, submit, offGateVars>>

\* the interval of the periodic session validation fires
PeriodicCheck(tab) ==
    /\ gate[tab].isAuthenticated
    /\ LET v == validateSession(auth_session[tab], clock)
           after == SessionCheck(auth_local, v.session,
                                 [gate[tab] EXCEPT !.isAuthenticated = FALSE], clock)
       IN IF v.cleared
          THEN /\ auth_session' = [auth_session EXCEPT ![tab] = after.session]
               /\ auth_local' = after.local
               /\ storage_event' = EventsAfter(tab, after.local)
               /\ gate' = [gate EXCEPT ![tab] = after.gate]
               /\ misses' = MissesAfter(after.local)
               /\ timer_set' = [timer_set EXCEPT ![tab] = TimerAfter(tab, after.gate)]
          ELSE /\ auth_session' = [auth_session EXCEPT ![tab] = v.session]
               /\ UNCHANGED <<auth_local, storage_event, gate, misses, timer_set>>
    /\ UNCHANGED <<clock, submit, offGateVars>>

\* the component is constructed in the tab and its effects run, the
\* sessionStorage of the tab holding stored
Mounted(tab, stored) ==
    /\ LET after == SessionCheck(auth_local, stored, GateMounted, clock)
       IN /\ auth_local' = after.local
          /\ storage_event' = [EventsAfter(tab, after.local) EXCEPT ![tab] = FALSE]
          /\ auth_session' = [auth_session EXCEPT ![tab] = after.session]
          /\ gate' = [gate EXCEPT ![tab] = after.gate]
          /\ timer_set' = [timer_set EXCEPT
                              ![tab] = IF after.gate.isLocked THEN clock ELSE 0]
          /\ misses' = MissesAfter(after.local)
    /\ submit' = [submit EXCEPT ![tab] = NoSubmit]
    /\ UNCHANGED <<clock, offGateVars>>

\* the page is loaded again in the tab (kept: the sessionStorage is that of the
\* tab) or opened in a tab of its own
MountGate(tab, kept) ==
    Mounted(tab, IF kept THEN auth_session[tab] ELSE NoAuthSession)

\* the storage event of another tab's write is handled: clearAuthData() and
\* window.location.reload()
handleStorageChange(tab) ==
    /\ storage_event[tab]
    /\ Mounted(tab, NoAuthSession)

\* time passes
Tick ==
    /\ clock < MaxClock
    /\ clock' = clock + 1
    /\ UNCHANGED <<auth_local, auth_session, gate, submit, timer_set, storage_event,
                   misses, offGateVars>>

InitGate == Init

NextGate ==
    \/ \E tab \in Tabs : \E password \in Passwords : setPassword(tab, password)
    \/ \E tab \in Tabs : SubmitPassword(tab)
    \/ \E tab \in Tabs : FinishSubmit(tab, generateToken(tab))
    \/ \E tab \in Tabs : CountdownTick(tab)
    \/ \E tab \in Tabs : PeriodicCheck(tab)
    \/ \E tab \in Tabs : \E kept \in BOOLEAN : MountGate(tab, kept)
    \/ \E tab \in Tabs : handleStorageChange(tab)
    \/ Tick

SpecGate == InitGate /\ [][NextGate]_vars

\* what the sessionStorage of a tab can hold when the page is loaded: the
\* entries of an earlier login, some of them missing or altered by hand
StoredSessions ==
    [session : {NoCipher, NotACipher, encryptData("authenticated", "t1"),
                encryptData("authenticated", "t2"), encryptData("guest", "t1")},
     timestamp : {NoEntry, NotANumber, Num(0 - SESSION_TIMEOUT - 1),
                  Num(0 - SESSION_TIMEOUT), Num(0)},
     token : {"", "t1"}]

\* the component of the first tab is constructed over a sessionStorage that
\* holds entries already, and its effects have not run yet
InitValidate ==
    /\ RunIdle /\ AggIdle /\ ParseIdle /\ ConfigIdle /\ UiIdle
    /\ clock = 0
    /\ auth_local = NoAuthLocal
    /\ auth_session \in {[tab \in Tabs |-> IF tab = 1 THEN stored ELSE NoAuthSession] :
                            stored \in StoredSessions}
    /\ gate = [tab \in Tabs |-> GateMounted]
    /\ submit = [tab \in Tabs |-> NoSubmit]
    /\ timer_set = [tab \in Tabs |-> 0]
    /\ storage_event = [tab \in Tabs |-> FALSE]
    /\ misses = 0

NextValidate ==
    \/ \E tab \in Tabs : MountGate(tab, TRUE)
    \/ \E tab \in Tabs : PeriodicCheck(tab)
    \/ Tick

SpecValidate == InitValidate /\ [][NextValidate]_vars

----------------------------------------------------------------------------
(* Properties *)

\* a provider outcome that counts as no response: a thrown error, null, or the empty text
Failed(o) == o.kind \in {"throw", "nocontent"} \/ (o.kind = "content" /\ o.text = <<>>)

Responded(o) == o.kind = "content" /\ o.text # <<>>

Stage1Settled == pc # "idle" /\ \A i \in DOMAIN raw1 : Failed(raw1[i]) \/ Responded(raw1[i])

Stage2Settled == \A i \in DOMAIN raw2 : Failed(raw2[i]) \/ Responded(raw2[i])

Stage1AllFailed == pc # "idle" /\ \A i \in DOMAIN raw1 : Failed(raw1[i])

\* C1: when every Stage 1 call of a run has failed, no Stage 2 call and no chairman
\* call is issued, and the run returns empty stage1_results, stage2_results,
\* aggregate_rankings and label_to_member with the chairman "Error".
C1_ShortCircuit ==
    Stage1AllFailed =>
        /\ \A i \in DOMAIN raw2 : raw2[i] = NotIssued
        /\ raw3 = NotIssued
        /\ pc \in {"stage1", "done"}
        /\ pc = "done" =>
              /\ result.stage1_results = <<>>
              /\ result.stage2_results = <<>>
              /\ result.metadata.aggregate_rankings = <<>>
              /\ DOMAIN result.metadata.label_to_member = {}
              /\ result.stage3_result.chairman = "Error"

C1_Witness ==
    /\ pc = "done"
    /\ Stage1AllFailed
    /\ \E i \in DOMAIN raw1 : raw1[i] = Thrown
    /\ \E i \in DOMAIN raw1 : raw1[i] = Content(<<>>) \/ raw1[i] = NoContent

C3_Barrier ==
    /\ (\E i \in DOMAIN raw2 : raw2[i] # NotIssued) => Stage1Settled
    /\ raw3 # NotIssued => Stage1Settled /\ Stage2Settled
    /\ pc \in {"stage2", "stage3", "done"} => Stage1Settled

C3_Witness ==
    /\ raw3 = InFlight
    /\ \E i \in DOMAIN raw1 : Failed(raw1[i])
    /\ \E i \in DOMAIN raw2 : Failed(raw2[i])

\* what a member's own call came to: its text, or the absence marker
OwnResponse(o) == IF Responded(o) THEN Text(o.text) ELSE Null

FanOutKeepsEveryMember(raw) ==
    LET resultMap == queryProvidersParallel(config.members, raw)
    IN \A i \in DOMAIN config.members :
          /\ config.members[i].name \in DOMAIN resultMap
          /\ resultMap[config.members[i].name] = OwnResponse(raw[i])

\* C4: in a fan-out a failed call never keeps a sibling call from being issued or
\* from having its text recorded: once the calls have settled, the result of the
\* fan-out has an entry for every member, holding that member's own text or the
\* absence marker.
C4_FanOutIsolation ==
    /\ \A i, j \in DOMAIN raw1 : Failed(raw1[i]) => raw1[j] # NotIssued
    /\ \A i, j \in DOMAIN raw2 : Failed(raw2[i]) => raw2[j] # NotIssued
    /\ pc = "stage1" /\ Stage1Settled => FanOutKeepsEveryMember(raw1)
    /\ pc = "stage2" /\ Stage2Settled => FanOutKeepsEveryMember(raw2)

RECURSIVE IsSubsequence(_, _)
IsSubsequence(s, t) ==
    IF s = <<>> THEN TRUE
    ELSE IF t = <<>> THEN FALSE
    ELSE IF Head(s) = Head(t) THEN IsSubsequence(Tail(s), Tail(t))
    ELSE IsSubsequence(s, Tail(t))

RosterNames == [i \in DOMAIN config.members |-> config.members[i].name]

\* C6: the Stage 1 result lists the responders in roster order, whatever the order
\* in which their calls settled.
C6_RosterOrder ==
    pc = "stage1_returned" =>
        IsSubsequence([p \in DOMAIN stage1_results |-> stage1_results[p].member], RosterNames)

C6_Witness ==
    /\ pc = "stage1_returned"
    /\ Len(stage1_results) >= 2
    /\ stage1_results[1].member # stage1_results[2].member
    /\ completed[1] > completed[2]

\* the entries Stage 1 owes: one for every member whose own call returned text,
\* carrying that text, in roster order
RECURSIVE OwnEntries(_, _)
OwnEntries(members, raw) ==
    IF members = <<>> THEN <<>>
    ELSE LET rest == OwnEntries(Tail(members), Tail(raw))
         IN IF Responded(Head(raw))
            THEN <<[member |-> Head(members).name, model |-> Head(members).modelId,
                    provider |-> Head(members).provider, response |-> Head(raw).text]>> \o rest
            ELSE rest

\* C7: a member has an entry in the Stage 1 result exactly when its own call
\* returned non-empty text, and the entry carries the text of that call.
C7_OwnResponse ==
    pc = "stage1_returned" => stage1_results = OwnEntries(config.members, raw1)

\* C8: label_to_member has one entry per Stage 1 response, keyed "Response A",
\* "Response B", ... in the order of stage1_results, and no two labels map to
\* the same member.
C8_LabelBijection ==
    pc \in {"stage2", "stage3"} =>
        /\ Cardinality(DOMAIN label_to_member) = Len(stage1_results)
        /\ \A i \in DOMAIN stage1_results :
              /\ Label(i - 1) \in DOMAIN label_to_member
              /\ label_to_member[Label(i - 1)] = stage1_results[i].member
        /\ \A k, l \in DOMAIN label_to_member :
              k # l => label_to_member[k] # label_to_member[l]

\* where the peer rankings put a member: the (ranking, index) pairs whose label
\* resolves to it
PositionsOf(m) ==
    {rp \in (DOMAIN agg_stage2) \X (1..(MaxParsedLen + 1)) :
        /\ rp[2] \in DOMAIN agg_stage2[rp[1]].parsed_ranking
        /\ agg_stage2[rp[1]].parsed_ranking[rp[2]] \in DOMAIN agg_labels
        /\ agg_labels[agg_stage2[rp[1]].parsed_ranking[rp[2]]] = m}

RECURSIVE SumOfPositions(_)
SumOfPositions(S) ==
    IF S = {} THEN 0
    ELSE LET rp == CHOOSE x \in S : TRUE IN rp[2] + SumOfPositions(S \ {rp})

\* q hundredths is the mean of the positions in S rounded to 2 decimals
IsMeanTo2Decimals(q, S) ==
    /\ 200 * SumOfPositions(S) - Cardinality(S) < 2 * Cardinality(S) * q
    /\ 2 * Cardinality(S) * q <= 200 * SumOfPositions(S) + Cardinality(S)

ParsedOrders == [r \in DOMAIN agg_stage2 |-> agg_stage2[r].parsed_ranking]

ExampleOrders ==
    << <<Label(0), Label(1)>>, <<Label(1), Label(0)>>, <<Label(0), Label(1)>> >>

ExampleLabels ==
    [l \in {Label(0), Label(1)} |->
        IF l = Label(0) THEN DEFAULT_COUNCIL_MEMBERS[1].name ELSE DEFAULT_COUNCIL_MEMBERS[2].name]

\* C9: every member gets the mean, rounded to 2 decimals, of the 1-indexed
\* positions at which a label resolving to it occurs across all peer rankings,
\* unresolved labels keeping their place; [[A,B],[B,A],[A,B]] gives A 1.33, B 1.67.
C9_MeanPosition ==
    agg_pc = "returned" =>
        /\ \A m \in MemberNames :
              PositionsOf(m) # {} =>
                 \E e \in DOMAIN agg_out :
                    /\ agg_out[e].member = m
                    /\ IsMeanTo2Decimals(agg_out[e].average_rank, PositionsOf(m))
        /\ \A e \in DOMAIN agg_out :
              IsMeanTo2Decimals(agg_out[e].average_rank, PositionsOf(agg_out[e].member))
        /\ (ParsedOrders = ExampleOrders /\ agg_labels = ExampleLabels) =>
              /\ Len(agg_out) = 2
              /\ agg_out[1].member = ExampleLabels[Label(0)] /\ agg_out[1].average_rank = 133
              /\ agg_out[2].member = ExampleLabels[Label(1)] /\ agg_out[2].average_rank = 167

C9_Witness ==
    /\ agg_pc = "returned"
    /\ ParsedOrders = ExampleOrders
    /\ agg_labels = ExampleLabels
    /\ Len(agg_out) = 2

\* C10: a respondent that no parsed ranking mentions has no entry: every entry
\* has rankings_count >= 1 and none carries the default rank 999.
C10_UnmentionedAbsent ==
    agg_pc = "returned" =>
        /\ \A e \in DOMAIN agg_out :
              /\ agg_out[e].rankings_count >= 1
              /\ agg_out[e].average_rank # DefaultRank
        /\ \A m \in Range(agg_labels) :
              PositionsOf(m) = {} => \A e \in DOMAIN agg_out : agg_out[e].member # m

C10_Witness ==
    /\ agg_pc = "returned"
    /\ Len(agg_out) = 1
    /\ Cardinality(Range(agg_labels)) = 2
    /\ \E m \in Range(agg_labels) : PositionsOf(m) = {}

\* (r, p) comes before (s, q) in the walk over the peer rankings
WalkedBefore(rp, sq) == rp[1] < sq[1] \/ (rp[1] = sq[1] /\ rp[2] < sq[2])

\* m is first observed before n while walking the peer rankings
FirstObservedBefore(m, n) ==
    \E rp \in PositionsOf(m) : \A sq \in PositionsOf(n) : WalkedBefore(rp, sq)

\* C11: aggregate_rankings is sorted by ascending average_rank, and two members
\* with equal average_rank appear in the order in which they were first observed
\* while walking the peer rankings, whatever the member names are.
C11_SortedStable ==
    agg_pc = "returned" =>
        \A e, f \in DOMAIN agg_out :
            e < f =>
               /\ agg_out[e].average_rank <= agg_out[f].average_rank
               /\ agg_out[e].average_rank = agg_out[f].average_rank =>
                      FirstObservedBefore(agg_out[e].member, agg_out[f].member)

\* the peer rankings whose parsed order mentions m
RankingsMentioning(m) == {rp[1] : rp \in PositionsOf(m)}

\* C12: for every entry of aggregate_rankings, rankings_count is the number of
\* peer rankings whose parsed order mentions that member at all; it never
\* exceeds the number of peer rankings.
C12_CountsRankings ==
    agg_pc = "returned" =>
        \A e \in DOMAIN agg_out :
            /\ agg_out[e].rankings_count = Cardinality(RankingsMentioning(agg_out[e].member))
            /\ agg_out[e].rankings_count <= Len(agg_stage2)

\* the member a label of the run resolves to, "" when it resolves to none
MemberOfLabel(label) ==
    IF Resolves(label_to_member, label) THEN label_to_member[label] ELSE ""

\* every peer ranking of the run places a label of m first
EveryRankingPlacesFirst(m) ==
    \A r \in DOMAIN stage2_results :
        /\ stage2_results[r].parsed_ranking # <<>>
        /\ MemberOfLabel(stage2_results[r].parsed_ranking[1]) = m

\* no peer ranking of the run mentions m after its first place
NoLaterMention(m) ==
    \A r \in DOMAIN stage2_results :
        \A p \in DOMAIN stage2_results[r].parsed_ranking :
            p > 1 => MemberOfLabel(stage2_results[r].parsed_ranking[p]) # m

LeadsAggregate(m) ==
    /\ aggregate_rankings # <<>>
    /\ aggregate_rankings[1] =
           [member |-> m, average_rank |-> 100, rankings_count |-> Len(stage2_results)]
    /\ pc = "done" =>
          /\ result.metadata.aggregate_rankings = aggregate_rankings
          /\ result.stage3_result.response # <<>>

\* C13 as stated: if R >= 1 peer rankings succeed and every one of them places
\* the label of the same member first, that member is aggregate_rankings[0] with
\* average_rank 1.0 and rankings_count R, and the final answer text is non-empty.
C13_UnanimousFirst_AsStated ==
    (pc \in {"stage3", "done"} /\ Len(stage2_results) >= 1) =>
        \A m \in {stage1_results[i].member : i \in DOMAIN stage1_results} :
            EveryRankingPlacesFirst(m) => LeadsAggregate(m)

\* C13: if R >= 1 peer rankings succeed, every one of them places a label of the
\* same member first and none of them mentions that member again further down,
\* that member is aggregate_rankings[0] with average_rank 1.0 and rankings_count
\* R, and the final answer text is non-empty.
C13_UnanimousFirst ==
    (pc \in {"stage3", "done"} /\ Len(stage2_results) >= 1) =>
        \A m \in {stage1_results[i].member : i \in DOMAIN stage1_results} :
            (EveryRankingPlacesFirst(m) /\ NoLaterMention(m)) => LeadsAggregate(m)

C13_Witness ==
    /\ pc = "done"
    /\ Len(stage2_results) >= 2
    /\ Len(aggregate_rankings) >= 2
    /\ \E m \in {stage1_results[i].member : i \in DOMAIN stage1_results} :
          EveryRankingPlacesFirst(m) /\ NoLaterMention(m)

HasMarker(text) == \E i \in DOMAIN text : text[i] = Marker

HasLabel(text) == \E i \in DOMAIN text : text[i] \in LabelTokens

\* C14: parse_ranking_from_text returns a list of labels for every text, and the
\* empty list for a text that holds no label, with or without the marker.
C14_ParserTotal ==
    parse_pc = "returned" =>
        /\ \A i \in DOMAIN parse_out : parse_out[i] \in LabelTokens
        /\ ~HasLabel(parse_text) => parse_out = <<>>

C14_Witness ==
    /\ parse_pc = "returned"
    /\ HasMarker(parse_text)
    /\ parse_text[Len(parse_text)] = NumberDot
    /\ ~HasLabel(parse_text)

\* the ranking region of a text that holds the marker: what follows the first
\* marker, up to the next marker or the end of the text
RankingRegion(text) ==
    LET first == CHOOSE i \in DOMAIN text :
                    text[i] = Marker /\ \A j \in 1..(i - 1) : text[j] # Marker
        stops == {j \in (first + 1)..Len(text) : text[j] = Marker} \cup {Len(text) + 1}
        stop == CHOOSE j \in stops : \A k \in stops : j <= k
    IN [k \in 1..(stop - first - 1) |-> text[first + k]]

\* the elements of s at the indexes in keep, in the order of s
RECURSIVE PickAt(_, _, _)
PickAt(s, keep, from) ==
    IF from > Len(s) THEN <<>>
    ELSE IF from \in keep THEN <<s[from]>> \o PickAt(s, keep, from + 1)
         ELSE PickAt(s, keep, from + 1)

\* the labels of the numbered entries "<n>. Response <Letter>" of a region, in text order
NumberedEntries(region) ==
    PickAt(region,
           {p \in DOMAIN region :
               p > 1 /\ region[p] \in LabelTokens /\ region[p - 1] = NumberDot}, 1)

\* every mention "Response <Letter>" of a region, in text order
BareMentions(region) == PickAt(region, {p \in DOMAIN region : region[p] \in LabelTokens}, 1)

\* C15: when the ranking region (what the parser cuts out after the first marker)
\* holds at least one numbered entry "<n>. Response <Letter>", the parsed order is
\* exactly the labels of the numbered entries in text order, bare mentions in the
\* region being ignored; only when the region has no numbered entry are its bare
\* mentions returned, in text order.
C15_NumberedBeforeBare ==
    (parse_pc = "returned" /\ HasMarker(parse_text)) =>
        LET region == RankingRegion(parse_text)
        IN /\ NumberedEntries(region) # <<>> => parse_out = NumberedEntries(region)
           /\ NumberedEntries(region) = <<>> => parse_out = BareMentions(region)

C15_Witness ==
    /\ parse_pc = "returned"
    /\ HasMarker(parse_text)
    /\ Len(NumberedEntries(RankingRegion(parse_text))) = 2
    /\ Len(BareMentions(RankingRegion(parse_text))) = 3
    /\ parse_out = NumberedEntries(RankingRegion(parse_text))

\* what Stages 1 and 2 and the aggregator make of the member calls alone
MemberCallsYield ==
    LET s1 == stage1_collect_responses(config.members, raw1, <<>>)
        s2 == stage2_collect_rankings(s1, config.members, raw2)
    IN [stage1_results |-> s1,
        stage2_results |-> s2.stage2_results,
        aggregate_rankings |->
            calculate_aggregate_rankings(s2.stage2_results, s2.label_to_member)]

\* C16: when the chairman call fails (throws, returns nothing or returns the
\* empty text) in a run whose Stage 1 produced a response, the run returns
\* normally; stage3_result carries the configured chairman's name, model and
\* provider and the fixed failure text; stage1_results, stage2_results and
\* aggregate_rankings are what the member calls yield, as they are when the
\* chairman succeeds.
C16_ChairmanFailure ==
    /\ (pc = "stage3" /\ Failed(raw3)) => ENABLED Return
    /\ (raw3 # NotIssued /\ Failed(raw3)) => pc \in {"stage3", "done"}
    /\ (pc = "done" /\ raw3 # NotIssued) =>
          /\ result.stage1_results = MemberCallsYield.stage1_results
          /\ result.stage2_results = MemberCallsYield.stage2_results
          /\ result.metadata.aggregate_rankings = MemberCallsYield.aggregate_rankings
          /\ Failed(raw3) =>
                result.stage3_result =
                    [chairman |-> config.chairman.name, model |-> config.chairman.modelId,
                     provider |-> config.chairman.provider, response |-> ChairmanFailureText]

C16_Witness ==
    /\ pc = "done"
    /\ raw3 = Thrown
    /\ Len(result.stage1_results) = 2
    /\ Len(result.stage2_results) = 1
    /\ result.metadata.aggregate_rankings # <<>>

\* C17: a run uses the configuration it was entered with: Stage 1 and Stage 2
\* call the members of that configuration and Stage 3 calls its chairman,
\* whatever is saved, reset or edited in the editor while the run is in flight.
C17_ConfigReadOnce ==
    pc # "idle" =>
        /\ called.stage1 = config.members
        /\ called.stage2 \in {<<>>, config.members}
        /\ called.stage3 \in {<<>>, <<config.chairman>>}
        /\ DOMAIN raw1 = DOMAIN config.members
        /\ DOMAIN raw2 = DOMAIN config.members
        /\ pc \in {"stage2", "stage3"} => called.stage2 = config.members
        /\ pc = "stage3" => called.stage3 = <<config.chairman>>
        /\ (pc = "done" /\ raw3 # NotIssued) =>
               /\ called.stage3 = <<config.chairman>>
               /\ result.stage3_result.chairman = config.chairman.name

C17_Witness ==
    /\ pc = "done"
    /\ raw3 # NotIssued
    /\ EditorConfig.members # config.members
    /\ EditorConfig.chairman # config.chairman
    /\ Configured.members # config.members
    /\ Configured.chairman # config.chairman

\* the built-in default configuration
BuiltInDefault == [members |-> DEFAULT_COUNCIL_MEMBERS, chairman |-> DEFAULT_CHAIRMAN]

\* a save or a reset whose write failed has just been made
WriteFailedStep ==
    /\ edits' = edits + 1
    /\ last_call'.op \in {"save", "reset"}
    /\ last_call'.failed

\* C18: when reading or parsing the stored configuration fails (the storage
\* throws, or the stored text is not valid JSON), loadCouncilConfig returns null
\* without throwing and getCouncilConfig returns the built-in default; when
\* writing fails, saveCouncilConfig does not throw and what is stored stays as
\* it was.
C18_StoreFailures ==
    /\ []((last_call.op = "get" /\ last_call.failed) =>
             /\ ~got.loaded.raised
             /\ got.loaded.value = <<>>
             /\ ~got.config.raised
             /\ got.config.value = BuiltInDefault)
    /\ [][WriteFailedStep => (~last_call'.raised /\ storage' = storage)]_vars

C18_Witness ==
    /\ last_call.op = "get"
    /\ last_call.failed
    /\ storage = NotJson
    /\ got.config.value = BuiltInDefault

\* the configuration getCouncilConfig owes: that of the latest successful save or
\* reset, the built-in default when there was none
OwedConfig == IF last_saved = <<>> THEN BuiltInDefault ELSE last_saved[1]

\* C19: after a successful saveCouncilConfig(c), getCouncilConfig returns a
\* configuration equal to c, and keeps returning it, across reloads, until the
\* next successful save or reset; when nothing was ever saved it returns the
\* built-in default.
C19_SaveThenGet ==
    /\ getCouncilConfig(storage, storage_denied, Defaults) = Returned(OwedConfig)
    /\ last_call.op = "get" => got.config = Returned(OwedConfig)

C19_Witness ==
    /\ last_call.op = "get"
    /\ last_saved # <<>>
    /\ last_saved[1] \notin {BuiltInDefault, EarlierConfig}
    /\ Len(last_saved[1].members) = 3
    /\ got.config.value = last_saved[1]

\* no edit has changed the built-in default itself
DefaultUntouched ==
    /\ default_members = DEFAULT_COUNCIL_MEMBERS
    /\ default_chairman = DEFAULT_CHAIRMAN

\* C20 as stated: after any sequence of roster edits and saves, reset leaves both
\* the stored configuration and the editor state equal to the built-in default,
\* a second reset yields the identical configuration, and no edit operation
\* ever changes the built-in default itself.
C20_ResetRestoresDefault_AsStated ==
    /\ DefaultUntouched
    /\ last_call.op = "reset" =>
          /\ EditorConfig = BuiltInDefault
          /\ storage = JsonStringify(BuiltInDefault)

\* C20: after any sequence of roster edits and saves, reset leaves the editor
\* state equal to the built-in default, and the stored configuration too when
\* its write succeeds; a second reset yields the identical configuration, and
\* no edit operation ever changes the built-in default itself.
C20_ResetRestoresDefault ==
    /\ DefaultUntouched
    /\ last_call.op = "reset" =>
          /\ EditorConfig = BuiltInDefault
          /\ ~last_call.failed =>
                /\ storage = JsonStringify(BuiltInDefault)
                /\ getCouncilConfig(storage, storage_denied, Defaults) = Returned(BuiltInDefault)

C20_Witness ==
    /\ last_call.op = "reset"
    /\ ~last_call.failed
    /\ got.config.value \notin {NoConfig, BuiltInDefault, EarlierConfig}
    /\ storage = JsonStringify(BuiltInDefault)
    /\ EditorConfig = BuiltInDefault
\* the roster has between 2 and 10 members
WithinBounds(members) ==
    Len(members) >= MinMembers /\ Len(members) <= MaxCouncilMembers

\* an add has been made on a roster of 10, a remove on a roster of 2
AddAtCap ==
    edits' = edits + 1 /\ last_call'.op = "add" /\ Len(councilMembers) = MaxCouncilMembers

RemoveAtFloor ==
    edits' = edits + 1 /\ last_call'.op = "remove" /\ Len(councilMembers) = MinMembers

\* C21: after any sequence of add, remove, update, reset, save and load on mount
\* the roster of the editor has between 2 and 10 members, and so has every
\* configuration that was saved or is stored; an add on a roster of 10 and a
\* remove on a roster of 2 leave the roster as it was.
C21_RosterSize ==
    /\ [](/\ WithinBounds(councilMembers)
          /\ WithinBounds(EditorConfig.members)
          /\ last_saved # <<>> => WithinBounds(last_saved[1].members)
          /\ storage # NoItem => WithinBounds(JsonParse(storage).members))
    /\ [][AddAtCap => councilMembers' = councilMembers]_vars
    /\ [][RemoveAtFloor => councilMembers' = councilMembers]_vars

C21_Witness ==
    /\ last_call.op = "add"
    /\ last_call.failed
    /\ Len(councilMembers) = MaxCouncilMembers
    /\ edits >= 2

Names(members) == {members[i].name : i \in DOMAIN members}

\* C22: after any sequence of add, remove and reset the names of the members in
\* the roster are pairwise distinct.
C22_NamesDistinct ==
    \A i, j \in DOMAIN councilMembers :
        i # j => EditorConfig.members[i].name # EditorConfig.members[j].name
\* Stage 2 of the run has issued its calls
Stage2Issued == pc \in {"stage2", "stage3"} \/ (pc = "done" /\ raw3 # NotIssued)

\* Stage 2 of the run has returned
Stage2Returned == pc = "stage3" \/ (pc = "done" /\ raw3 # NotIssued)

\* C23: Stage 2 sends the ranking prompt to every member of the roster, also to
\* a member whose Stage 1 call failed, and a member whose ranking call returns
\* text has an entry in stage2_results.
C23_Stage2AsksEveryone ==
    /\ Stage2Issued =>
          /\ called.stage2 = config.members
          /\ \A i \in DOMAIN config.members : raw2[i] # NotIssued
    /\ Stage2Returned =>
          \A i \in DOMAIN config.members :
              Responded(raw2[i]) =>
                 \E e \in DOMAIN stage2_results :
                    stage2_results[e].member = config.members[i].name
\* the names of the members whose own call returned text, in roster order
RECURSIVE RespondentNames(_, _)
RespondentNames(members, raw) ==
    IF members = <<>> THEN <<>>
    ELSE (IF Responded(Head(raw)) THEN <<Head(members).name>> ELSE <<>>)
         \o RespondentNames(Tail(members), Tail(raw))

\* the peer rankings from which a label was parsed
WithParsedLabels(rankings) == SelectSeq(rankings, LAMBDA r : r.parsed_ranking # <<>>)

\* C24: stage2_results has one entry for every member whose ranking call returned
\* non-empty text, in roster order, also when no label could be parsed from the
\* text; such an entry has an empty parsed_ranking, adds nothing to
\* aggregate_rankings and does not keep the run from reaching Stage 3.
C24_UnparsedRankingKept ==
    /\ pc # "threw"
    /\ (pc = "stage2" /\ AllSettled(raw2)) => ~FanOutRejects(called.stage2, raw2)
    /\ Stage2Returned =>
          /\ [e \in DOMAIN stage2_results |-> stage2_results[e].member]
                 = RespondentNames(config.members, raw2)
          /\ \A e \in DOMAIN stage2_results :
                 ~HasLabel(stage2_results[e].ranking) =>
                     stage2_results[e].parsed_ranking = <<>>
          /\ aggregate_rankings =
                 calculate_aggregate_rankings(WithParsedLabels(stage2_results), label_to_member)
\* the number of calls of a fan-out that have been issued
IssuedCalls(raw) == Cardinality({i \in DOMAIN raw : raw[i] # NotIssued})

\* a call that has settled stays as it settled: it is not issued again
NoCallReissued ==
    /\ \A i \in DOMAIN raw1 : Settled(raw1[i]) => raw1'[i] = raw1[i]
    /\ \A i \in DOMAIN raw2 : Settled(raw2[i]) => raw2'[i] = raw2[i]
    /\ Settled(raw3) => raw3' = raw3

\* C25: a run over a roster of N members issues N Stage 1 calls, one for each
\* place of the roster; when Stage 1 yields a response it issues N Stage 2
\* calls and one chairman call, and when Stage 1 yields none it issues no
\* further call; no call that failed is issued again.
C25_CallCounts ==
    /\ [](pc # "idle" =>
            /\ called.stage1 = config.members
            /\ DOMAIN raw1 = DOMAIN config.members
            /\ IssuedCalls(raw1) = Len(config.members)
            /\ IssuedCalls(raw2) \in {0, Len(config.members)}
            /\ pc = "done" =>
                  IF Len(stage1_results) >= 1
                  THEN /\ called.stage2 = config.members
                       /\ IssuedCalls(raw2) = Len(config.members)
                       /\ called.stage3 = <<config.chairman>>
                       /\ raw3 # NotIssued
                  ELSE /\ called.stage2 = <<>>
                       /\ IssuedCalls(raw2) = 0
                       /\ called.stage3 = <<>>
                       /\ raw3 = NotIssued)
    /\ [][NoCallReissued]_vars

C25_Witness ==
    /\ pc = "done"
    /\ raw1[1] = Thrown
    /\ Responded(raw1[2])
    /\ raw2[1] = NoContent
    /\ raw2[2] = Thrown
    /\ raw3 = Thrown
\* a handleSubmit has got past its guard
SubmitStarts == in_flight' > in_flight

\* C26: a submission starts a run only when the trimmed input is not empty, no
\* run is in progress and at least one provider has a credential; at most one
\* handleSubmit of the dialog is in flight, and a run only while one is.
C26_SubmitGuard ==
    /\ [](/\ in_flight <= 1
          /\ in_flight = 1 => isLoading
          /\ pc # "idle" => in_flight = 1)
    /\ [][SubmitStarts =>
             /\ Trim(input) # ""
             /\ ~isLoading
             /\ in_flight = 0
             /\ pc = "idle"
             /\ configured \cap Providers # {}]_vars

C26_Witness ==
    /\ in_flight = 1
    /\ pc = "stage2"
    /\ now = 1
    /\ closure.query = "hi"
    /\ configured = {"openrouter"}

\* C29: while a submitted run is loading, currentStage is the stage the pipeline
\* is in: stage 2 while the ranking calls are in flight, stage 3 while the
\* chairman call is in flight.
C29_StageShown ==
    isLoading =>
        /\ pc = "stage2" => currentStage = "stage2"
        /\ pc = "stage3" => currentStage = "stage3"

IdsOf(list) == {list[i].id : i \in DOMAIN list}

\* C30: a session that was deleted is neither in the session list nor in the
\* stored sessions, whatever was done since, also when it was deleted while a
\* run was in flight that has completed since.
C30_DeletedStaysDeleted ==
    \A sessionId \in deleted :
        /\ sessionId \notin IdsOf(sessions)
        /\ sessionId \notin IdsOf(LoadSessions(stored_sessions))

\* everything that follows the first marker of a text that holds the marker
AfterFirstMarker(text) ==
    LET first == CHOOSE i \in DOMAIN text :
                    text[i] = Marker /\ \A j \in 1..(i - 1) : text[j] # Marker
    IN [k \in 1..(Len(text) - first) |-> text[first + k]]

\* C27: when the text holds the marker, the ranking region is everything that
\* follows the first marker: every numbered entry after the first marker is
\* extracted, also when the marker occurs again further on.
C27_RegionAfterFirstMarker ==
    (parse_pc = "returned" /\ HasMarker(parse_text)) =>
        LET region == AfterFirstMarker(parse_text)
        IN NumberedEntries(region) # <<>> => parse_out = NumberedEntries(region)

\* C28: when the text holds no marker, the two steps are applied to the whole
\* text: if it has a numbered entry the result is the labels of its numbered
\* entries in order, and only otherwise its bare mentions in text order.
C28_NoMarkerSameSteps ==
    (parse_pc = "returned" /\ ~HasMarker(parse_text)) =>
        /\ NumberedEntries(parse_text) # <<>> => parse_out = NumberedEntries(parse_text)
        /\ NumberedEntries(parse_text) = <<>> => parse_out = BareMentions(parse_text)

\* an edit of the roster or of the chairman has just been made
EditStep ==
    /\ edits' = edits + 1
    /\ last_call'.op \in {"add", "remove", "update", "chairman"}

\* C31: editing the roster in the editor (add member, remove member, update a
\* member, change the chairman) leaves the stored configuration unchanged; the
\* stored configuration changes only through Save and Reset, so edits that were
\* not saved are gone after the dialog is mounted again.
C31_EditsNotStored ==
    /\ [][EditStep => (storage' = storage /\ last_saved' = last_saved)]_vars
    /\ [][storage' # storage =>
             (last_call'.op \in {"save", "reset"} /\ ~last_call'.failed)]_vars
    /\ [](last_call.op = "reload" => EditorConfig = OwedConfig)

C31_Witness ==
    /\ last_call.op = "chairman"
    /\ storage = JsonStringify(EarlierConfig)
    /\ EditorConfig.chairman # EarlierConfig.chairman
    /\ EditorConfig # OwedConfig

\* the handler in flight goes through catch and finally
CatchStep == RunSettles /\ pc = "threw"

\* the turns of the session of that id in the list, none when it is not there
TurnsOf(list, id) ==
    IF FindSession(list, id) = <<>> THEN <<>> ELSE FindSession(list, id)[1].turns

\* the step adds the turn made now to one session, new or not, and leaves every
\* other session of the list as it was
OneTurnAdded ==
    /\ IdsOf(sessions) \subseteq IdsOf(sessions')
    /\ \E id \in IdsOf(sessions') :
          /\ TurnsOf(sessions', id) = Append(TurnsOf(sessions, id), NewTurn(now'))
          /\ \A other \in IdsOf(sessions') \ {id} :
                TurnsOf(sessions', other) = TurnsOf(sessions, other)

\* C32: every submission eventually clears isLoading, whether run_full_council
\* returns a result or throws; when it throws, currentStage returns to idle and
\* no turn and no session is added, and when it returns (also with the
\* all-models-failed sentinel) exactly one turn is added to exactly one session.
C32_SubmitEnds ==
    /\ isLoading ~> ~isLoading
    /\ [][CatchStep =>
             /\ ~isLoading'
             /\ currentStage' = "idle"
             /\ sessions' = sessions
             /\ stored_sessions' = stored_sessions]_vars
    /\ [][CompleteSubmit(FALSE) => (~isLoading' /\ OneTurnAdded)]_vars

\* the members named in a list of entries that carry a member
MembersOf(entries) == {entries[i].member : i \in DOMAIN entries}

\* C33: in every result of run_full_council, each member named in
\* aggregate_rankings is a member of stage1_results of the same run (a value of
\* label_to_member), and no member is named twice in aggregate_rankings.
C33_AggregateMembers ==
    pc = "done" =>
        LET aggregate == result.metadata.aggregate_rankings
            labels == result.metadata.label_to_member
        IN /\ MembersOf(aggregate) \subseteq MembersOf(result.stage1_results)
           /\ MembersOf(aggregate) \subseteq {labels[l] : l \in DOMAIN labels}
           /\ \A i, j \in DOMAIN aggregate :
                 aggregate[i].member = aggregate[j].member => i = j

C33_Witness ==
    /\ pc = "done"
    /\ Len(result.metadata.aggregate_rankings) = 2
    /\ \E r \in DOMAIN result.stage2_results :
          Len(result.stage2_results[r].parsed_ranking) = 3

\* the length of the longest parsed ranking of the result
LongestRanking(rankings) ==
    IF rankings = <<>> THEN 0
    ELSE CHOOSE n \in {Len(rankings[r].parsed_ranking) : r \in DOMAIN rankings} :
            \A r \in DOMAIN rankings : Len(rankings[r].parsed_ranking) <= n

\* every parsed ranking names only labels of the run's responses, each once
NamesResponsesOnce(rankings, labels) ==
    \A r \in DOMAIN rankings :
        LET parsed == rankings[r].parsed_ranking
        IN /\ \A p \in DOMAIN parsed : parsed[p] \in DOMAIN labels
           /\ \A p, q \in DOMAIN parsed : parsed[p] = parsed[q] => p = q

\* C34 as stated: in every result of run_full_council, every average_rank in
\* aggregate_rankings is at least 1 and at most the number of Stage 1 responses
\* of that run.
C34_RankWithinResponses_AsStated ==
    pc = "done" =>
        \A e \in DOMAIN result.metadata.aggregate_rankings :
            /\ result.metadata.aggregate_rankings[e].average_rank >= 100
            /\ result.metadata.aggregate_rankings[e].average_rank
                  <= 100 * Len(result.stage1_results)

\* C34: in every result of run_full_council, every average_rank in
\* aggregate_rankings is at least 1 and at most the length of the longest parsed
\* ranking of that run; it is at most the number of Stage 1 responses when every
\* parsed ranking names only labels of that run's responses, each of them once.
C34_RankWithinResponses ==
    pc = "done" =>
        \A e \in DOMAIN result.metadata.aggregate_rankings :
            LET rank == result.metadata.aggregate_rankings[e].average_rank
            IN /\ rank >= 100
               /\ rank <= 100 * LongestRanking(result.stage2_results)
               /\ NamesResponsesOnce(result.stage2_results, result.metadata.label_to_member)
                     => rank <= 100 * Len(result.stage1_results)

C34_Witness ==
    /\ pc = "done"
    /\ Len(result.stage1_results) = 2
    /\ Len(result.stage2_results) = 2
    /\ NamesResponsesOnce(result.stage2_results, result.metadata.label_to_member)
    /\ \E e \in DOMAIN result.metadata.aggregate_rankings :
          result.metadata.aggregate_rankings[e].average_rank = 200

\* parseInt(localStorage.getItem(ATTEMPT_KEY) || "0", 10)
StoredAttempts == IF Present(auth_local.attempts) THEN auth_local.attempts.n ELSE 0

LockoutStored == Present(auth_local.lockout)

\* C36: starting from zero recorded failures, the password gate becomes locked
\* exactly when the fifth wrong password in a row is submitted: after each of
\* the first four wrong submissions it is not locked and the stored failure
\* count equals the number of wrong submissions; the stored failure count never
\* exceeds 5.
C36_LockedAtFifth ==
    /\ StoredAttempts = misses
    /\ StoredAttempts <= MAX_ATTEMPTS
    /\ misses \in 1..(MAX_ATTEMPTS - 1) => ~LockoutStored
    /\ misses = MAX_ATTEMPTS =>
          /\ LockoutStored
          /\ \E tab \in Tabs : gate[tab].isLocked

\* C35: after any sequence of submit, run completion, new-session,
\* select-session and delete-session operations, in any interleaving with a run
\* in flight, currentSessionId is null or the id of a session of the session
\* list.
C35_CurrentSessionListed ==
    currentSessionId = NoSession \/ currentSessionId \in IdsOf(sessions)

C35_Witness ==
    /\ currentStage = "complete"
    /\ deleted # {}
    /\ currentSessionId # NoSession
    /\ currentSessionId \in IdsOf(sessions)
    /\ Len(sessions) = 2

\* the current time is before the stored lockout deadline
LockoutInForce ==
    /\ Present(auth_local.lockout)
    /\ IsNumber(auth_local.lockout)
    /\ clock < auth_local.lockout.n

\* a step of handleSubmit in the tab: its start or its continuation
SubmissionStep(tab) == SubmitPassword(tab) \/ FinishSubmit(tab, generateToken(tab))

\* the continuation of a submission of the correct password
CorrectStep(tab) ==
    /\ FinishSubmit(tab, generateToken(tab))
    /\ hashPassword(submit[tab].password) = hashPassword(correctPassword)

\* C37: while a lockout is in force (the current time is before the stored
\* lockout deadline), no submission, not even one with the correct password,
\* authenticates the user or changes the stored failure count; once the
\* deadline has passed, a submission finds the lockout and the failure count
\* both cleared and a correct password authenticates again.
C37_NoEntryWhileLocked ==
    /\ [][\A tab \in Tabs :
            LockoutInForce /\ SubmissionStep(tab)
                => /\ gate'[tab].isAuthenticated = gate[tab].isAuthenticated
                   /\ auth_local'.attempts = auth_local.attempts]_vars
    /\ [][\A tab \in Tabs :
            /\ LockoutStored /\ ~LockoutInForce /\ SubmitPassword(tab)
                  => auth_local' = NoAuthLocal /\ submit'[tab].pc = "hashing"
            /\ ~LockoutInForce /\ CorrectStep(tab)
                  => gate'[tab].isAuthenticated]_vars

\* C38: a successful login resets the stored failure count to zero, so a
\* lockout is stored only when five wrong submissions or more have been counted
\* since the last successful login or the last lockout expiry.
C38_FiveSinceLogin ==
    /\ [][\A tab \in Tabs : CorrectStep(tab) => StoredAttempts' = 0]_vars
    /\ [][(LockoutStored' /\ auth_local'.lockout # auth_local.lockout)
             => misses' >= MAX_ATTEMPTS]_vars

C38_Witness ==
    /\ misses = MAX_ATTEMPTS
    /\ StoredAttempts = MAX_ATTEMPTS
    /\ LockoutInForce
    /\ \E tab \in Tabs : gate[tab].isAuthenticated /\ Present(auth_session[tab].session)

\* the session entry, the timestamp and the token are all there
AllPresent(stored) ==
    Present(stored.session) /\ Present(stored.timestamp) /\ stored.token # ""

\* the timestamp is a time and lies at most 60 minutes before t
AtMostTimeoutOld(stored, t) ==
    IsNumber(stored.timestamp) /\ t - stored.timestamp.n <= SESSION_TIMEOUT

TimedOut(stored, t) ==
    AllPresent(stored) /\ IsNumber(stored.timestamp)
        /\ t - stored.timestamp.n > SESSION_TIMEOUT

Corrupted(stored) ==
    AllPresent(stored) /\ decryptData(stored.session, stored.token) # "authenticated"

\* validateSession is called in the tab: by the mount effect or by its interval
ValidationStep(tab) == MountGate(tab, TRUE) \/ PeriodicCheck(tab)

\* C39: validateSession accepts a stored session only when the session entry,
\* timestamp and token are all present, the timestamp is at most 60 minutes old
\* and the entry decrypts with the token to "authenticated"; on acceptance it
\* refreshes the timestamp to the current time, and on a timed-out or corrupted
\* session it removes all three entries and leaves the user unauthenticated.
C39_SessionValidated ==
    [][\A tab \in Tabs :
          ValidationStep(tab) =>
              LET stored == auth_session[tab]
                  accepted == validateSession(stored, clock).accepted
              IN /\ accepted =>
                       /\ AllPresent(stored)
                       /\ AtMostTimeoutOld(stored, clock)
                       /\ decryptData(stored.session, stored.token) = "authenticated"
                       /\ auth_session'[tab] = [stored EXCEPT !.timestamp = Num(clock)]
                       /\ gate'[tab].isAuthenticated
                 /\ (TimedOut(stored, clock) \/ Corrupted(stored)) =>
                       /\ auth_session'[tab] = NoAuthSession
                       /\ ~gate'[tab].isAuthenticated]_vars

\* the session list is written and the write succeeds
WriteSucceeds ==
    \/ CompleteSubmit(FALSE)
    \/ \E sessionId \in SessionIds : handleDeleteSession(sessionId, FALSE)

\* C40: after every operation that changes the session list (run completion,
\* delete-session), the sessions stored under agent_council_sessions equal the
\* session list in memory, provided the write succeeds; a failed write does not
\* throw (the completion ends at stage complete, the deletion clears a current
\* session that was deleted), leaves the stored sessions as they were and the
\* list in memory as updated.
C40_StoredEqualsList ==
    /\ [][WriteSucceeds => LoadSessions(stored_sessions') = sessions']_vars
    /\ [][CompleteSubmit(TRUE) =>
             /\ currentStage' = "complete"
             /\ stored_sessions' = stored_sessions
             /\ sessions' = WithTurn(closure.sessions, closure.currentSessionId, now + 1)]_vars
    /\ [][\A sessionId \in SessionIds :
             handleDeleteSession(sessionId, TRUE) =>
                 /\ stored_sessions' = stored_sessions
                 /\ sessionId \notin IdsOf(sessions')
                 /\ currentSessionId' # sessionId]_vars

C40_Witness ==
    /\ currentStage = "complete"
    /\ Len(sessions) = 2
    /\ LoadSessions(stored_sessions) # sessions
    /\ Len(LoadSessions(stored_sessions)) = 1

====
